---- MODULE Spec2Model ----
(***************************************************************************)
(* A model of the Alfen wallbox client (custom_components/alfen_wallbox):  *)
(* the session manager, the request executor, the pending-write queue and  *)
(* the update cycle of AlfenDevice, driven by the coordinator.             *)
(*                                                                         *)
(* The program runs on one asyncio event loop.  A task runs without        *)
(* interruption until it suspends (a network call, a contended lock, a     *)
(* sleep).  `running` names the task that holds the event loop; while it   *)
(* is set only that task steps.  A step that suspends clears it.           *)
(***************************************************************************)
EXTENDS Integers, Sequences, FiniteSets, TLC

\* ------------------------------------------------------------------ bounds
NumUpdaters == 2          \* concurrent coordinator refreshes (async_update callers)
NumCallers == 1           \* concurrent upstream callers (entities, services)
NumIds == 2               \* property ids that can be written
NumVals == 2              \* values a property can be set to
MaxGets == 1              \* GET calls one fetch stage of a cycle makes
MaxTicks == 2             \* clock advances in the rate-limit specification
MaxPage == 2              \* properties on one page of a category
MaxTotal == 4             \* the total a page can report
MaxLines == 2             \* lines in one transaction response
NumSockets == 2           \* sockets named in log and transaction lines
MaxCats == 5              \* rotating categories in the allowlist
MaxPerCycle == 3          \* categories_per_cycle
MaxLineId == 2            \* the largest line id of a log line

\* ------------------------------------------------------- program constants
LOG_EVERY == 20              \* alfen.py 450: the log fetch runs when the counter wraps
OFFSET_CAP == 100000          \* alfen.py 1120, 1224, 1228: the cap of the transaction offset
TRANSACTION_EVERY == 60      \* alfen.py 457: and so does the transaction fetch
LOGIN_RATE_LIMIT_WINDOW == 60
LOGIN_RATE_LIMIT_MAX_ATTEMPTS == 5
\* the literal 3 of `elif attempt >= 3` in _get_all_properties_value
MaxFetchAttempts == 3

None == "none"
NoTask == 0
Updaters == 1..NumUpdaters
Callers == (NumUpdaters + 1)..(NumUpdaters + NumCallers)
Tasks == Updaters \cup Callers
Ids == 1..NumIds
Vals == 1..NumVals
Cells == 1..NumIds
Responses == {"ok", "401", "err"}
TickSteps == {1, LOGIN_RATE_LIMIT_WINDOW - 1}

VARIABLES
    \* AlfenDevice fields
    logged_in, keep_logout, connector_closed, login_attempts,
    lock_holder, lock_waiters,            \* self._lock
    updating_holder, updating_waiters,    \* self._updating_lock
    update_values, cellval,               \* self.update_values: entries are shared dict objects
    \* the clock read by time.time()
    now, ticks,
    \* the event loop and each task's position and locals
    running, pc, op, main, cause, res, upd,
    \* history (not program state): what was sent and when
    unsent, lost, call, sendCtx, logoutActive, updInfo, loginInfo, lastSet,
    attemptLog, loginSent,
    \* the locals of _get_all_properties_value
    fetch,
    \* self.latest_tag, the log line being applied, and (history) the id of the
    \* line each start-tag was taken from
    latest_tag, logline, tagFrom,
    \* the rotation of _fetch_dynamic_properties, with its history
    rot,
    \* history: the typed setter called last, with its input
    setterCall,
    \* the facts of self.latest_tag the transaction parser writes, by key
    latest_tag_tx,
    \* self.transaction_offset, and the running _get_transaction: where it is,
    \* its locals offset, counter, unknownLine and transactionLoop, the lines of the
    \* response the for loop has not reached yet, and lines[-1]; history: the
    \* numeric id parsed last in this call and how many times in a row it came,
    \* the number of unknown lines parsed in a row, and the id of the line that
    \* wrote the facts of each socket and phase last (0: none)
    transaction,
    \* history: the transaction line parsed last, as line.split(" ")
    txline,
    \* self.properties, for the ids of the queue: whether the id is in the dict, and
    \* its VALUE as the drain writes it (the payload of the GET calls is left out)
    properties,
    \* history: the ids whose write the last completed drain left in the queue and
    \* that no drain has sent since
    failedWrites,
    \* self.get_static_properties, self.category_options, self.static_properties (as
    \* the categories it was loaded from)
    get_static_properties, category_options, static_properties,
    \* the cycle as the static stage sees it: where it is, and the static
    \* categories still to fetch and fetched so far
    boot,
    \* history: a re-bootstrap signal was raised and no bootstrap has started since
    bootOwed,
    \* self.log_counter and self.transaction_counter
    log_counter, transaction_counter,
    \* the cycle as the log and transaction stage sees it: where it is, and, as
    \* history, the cycles that reached each fetch test with its category enabled
    \* since the fetch last ran
    sched

devVars == <<logged_in, keep_logout, connector_closed, login_attempts>>
lockVars == <<lock_holder, lock_waiters>>
updLockVars == <<updating_holder, updating_waiters>>
queueVars == <<update_values, cellval>>
clockVars == <<now, ticks>>
taskVars == <<running, pc, op, main, cause, res, upd>>
histVars == <<unsent, lost, call, sendCtx, logoutActive, updInfo, loginInfo, lastSet,
              attemptLog, loginSent>>
\* the paginated fetch, the log and transaction parsers and the rotation
txVars == <<latest_tag_tx, transaction, txline>>
drainVars == <<properties, failedWrites>>
bootVars == <<get_static_properties, category_options, static_properties, boot, bootOwed>>
schedVars == <<log_counter, transaction_counter, sched>>
\* the data of the stages modelled on their own, but for the static stage and the
\* log and transaction schedule
stageData == <<fetch, latest_tag, logline, tagFrom, rot, setterCall, txVars, drainVars>>
dataVars == <<fetch, latest_tag, logline, tagFrom, rot, setterCall, txVars, drainVars, bootVars,
             schedVars>>
vars == <<devVars, lockVars, updLockVars, queueVars, clockVars, taskVars, histVars, dataVars>>

\* ----------------------------------------------------------------- helpers
RECURSIVE SeqFilterGt(_, _)
\* [t for t in s if bound < t]
SeqFilterGt(s, bound) ==
    IF s = <<>> THEN <<>>
    ELSE IF Head(s) > bound THEN <<Head(s)>> \o SeqFilterGt(Tail(s), bound)
         ELSE SeqFilterGt(Tail(s), bound)

RECURSIVE SeqRemove(_, _)
\* the sequence s without the elements equal to x
SeqRemove(s, x) ==
    IF s = <<>> THEN <<>>
    ELSE IF Head(s) = x THEN SeqRemove(Tail(s), x)
         ELSE <<Head(s)>> \o SeqRemove(Tail(s), x)

RECURSIVE CountIn(_, _, _)
\* how many elements t of s satisfy lo < t <= hi
CountIn(s, lo, hi) ==
    IF s = <<>> THEN 0
    ELSE (IF lo < Head(s) /\ Head(s) <= hi THEN 1 ELSE 0) + CountIn(Tail(s), lo, hi)

NoMain == [kind |-> None, id |-> 0, val |-> 0, allowed |-> TRUE]
\* resent: the drain has sent a write again that the drain before had left queued
NoUpd == [values |-> <<>>, idx |-> 0, okkeys |-> {}, stage |-> None, gets |-> 0,
          resent |-> FALSE]

\* an id that is not in self.properties
NoProp == [cached |-> FALSE, value |-> 0]
NoCall == [first401 |-> FALSE, relogins |-> 0, sends |-> 0, reauth |-> None, last |-> None]
NoCtx == [authed |-> TRUE, afterLogout |-> FALSE]
NoUpdInfo == [busy |-> FALSE, flag |-> FALSE, ran |-> FALSE, sent |-> FALSE, drained |-> FALSE]
NoLoginInfo == [before |-> FALSE, outcome |-> None]
NoSet == [val |-> 0, over |-> FALSE]

Sockets == 1..NumSockets
Tags == {"A"}
\* the start facts of a socket before any log line named it: the keys are absent,
\* and _get_log creates them as taglog 0 and tag None (alfen.py 1092-1095)
NoTagFacts == [tag |-> None, taglog |-> 0]
\* a log line as _get_log reads it: parsed says whether the line passes the format
\* tests (id prefix, 7 colon parts, "Socket #n"); event is "connect", "disconnect"
\* or "other"; hasTag is `"tag:" in message`; tag is what TAG_PATTERN captures
\* (None when it does not match)
LogLines ==
    [id : 0..MaxLineId, socket : Sockets, parsed : BOOLEAN,
     event : {"connect", "disconnect", "other"}, hasTag : BOOLEAN, tag : Tags \cup {None}]
\* what is remembered of the line applied last: its id, its socket and the tag it
\* carries for the start facts (None when it carries none)
NoLine == [id |-> 0, socket |-> 1, tag |-> None]

\* the rotation over total regular categories 0 .. total-1, per_cycle at a time:
\* category_rotation_index = 0 (alfen.py 106); total is the number of regular
\* categories in self.category_options and per_cycle self.categories_per_cycle;
\* the other fields are the locals of _fetch_dynamic_properties (total_categories,
\* to_fetch = len(categories_to_fetch), start_idx, i) and history: which categories the running cycle
\* fetched (window), how many completed cycles ago each was fetched last (age),
\* the categories fetched in the current round (seen), and whether one was
\* fetched again before the round was complete (early)
RotInit(total, per_cycle) ==
    [total |-> total, per_cycle |-> per_cycle, index |-> 0,
     pc |-> "idle", total_categories |-> total, to_fetch |-> per_cycle,
     start_idx |-> 0, i |-> 0, window |-> {},
     age |-> [c \in 0..(total - 1) |-> 0], seen |-> {}, early |-> FALSE]

\* the sockets the lines name, as the parser builds the key: "socket" + " " + n
TxSockets == {"socket 1", "socket 2"}

TxKeys == TxSockets \X {"start", "stop", "last_start", "mv"} \X {"date", "kWh"}

\* no transaction line parsed yet: no key is in the dict
NoTxFacts == [k \in TxKeys |-> None]

NoTransaction ==
    [pc |-> "idle", transaction_offset |-> 0, offset |-> 0, counter |-> 0,
     unknownLine |-> 0, transactionLoop |-> TRUE, lines |-> <<>>, last |-> <<>>,
     seen |-> [id |-> 0, times |-> 0], unknownRow |-> 0,
     applied |-> [sp \in TxSockets \X {"start", "stop", "last_start", "mv"} |-> 0]]

\* CATEGORIES without the transactions and the logs category, in its order, and
\* the refresh categories of a new entry; generic is the category that is always
\* loaded with the static ones
BootCategories == <<"generic", "states", "meter">>
DefaultOptions == {"states"}

\* no cycle is running
NoBoot == [pc |-> "idle", todo |-> <<>>, fetched |-> {}, ran |-> FALSE]

\* no cycle is in the log and transaction stage
NoSched == [pc |-> "idle", logSince |-> 0, txSince |-> 0]

\* n flips at every call of a typed setter
NoSetterCall == [setter |-> None, x |-> 0, n |-> 0]

\* _get_all_properties_value before it is called; total = -1: no page received yet
NoFetch == [pc |-> "idle", offset |-> 0, attempt |-> 0, properties |-> <<>>,
            total |-> -1, requested |-> 0, nulls |-> 0, why |-> None]

\* ------------------------------------------------------- AlfenDevice.__init__
Init ==
    /\ logged_in = FALSE
    /\ keep_logout = FALSE
    /\ connector_closed = FALSE
    /\ login_attempts = <<>>
    /\ lock_holder = NoTask /\ lock_waiters = <<>>
    /\ updating_holder = NoTask /\ updating_waiters = <<>>
    /\ update_values = <<>>
    /\ cellval = [c \in Cells |-> 0]
    /\ now = 0 /\ ticks = 0
    /\ running = NoTask
    /\ pc = [t \in Tasks |-> "idle"]
    /\ op = [t \in Tasks |-> None]
    /\ main = [t \in Tasks |-> NoMain]
    /\ cause = [t \in Tasks |-> None]
    /\ res = [t \in Tasks |-> None]
    /\ upd = [t \in Tasks |-> NoUpd]
    /\ unsent = [i \in Ids |-> FALSE]
    /\ lost = {}
    /\ call = [t \in Tasks |-> NoCall]
    /\ sendCtx = [t \in Tasks |-> NoCtx]
    /\ logoutActive = FALSE
    /\ updInfo = [t \in Tasks |-> NoUpdInfo]
    /\ loginInfo = [t \in Tasks |-> NoLoginInfo]
    /\ lastSet = [i \in Ids |-> NoSet]
    /\ attemptLog = <<>>
    /\ loginSent = <<>>
    /\ fetch = NoFetch
    /\ latest_tag = [s \in Sockets |-> NoTagFacts]
    /\ logline = NoLine
    /\ tagFrom = [s \in Sockets |-> 0]
    /\ rot = RotInit(1, 1)
    /\ setterCall = NoSetterCall
    /\ latest_tag_tx = NoTxFacts
    /\ transaction = NoTransaction
    /\ txline = <<>>
    /\ properties = [i \in Ids |-> NoProp]
    /\ failedWrites = {}
    /\ get_static_properties = TRUE /\ category_options = DefaultOptions
    /\ static_properties = {} /\ boot = NoBoot /\ bootOwed = TRUE
    /\ log_counter = 0 /\ transaction_counter = 0 /\ sched = NoSched

\* ------------------------------------------------- the pending-write queue
\* update_values is a dict (insertion ordered) of entry objects; an entry is
\* {"api_param": id, "value": v}.  Entries are heap objects: update_values and a
\* copy of it made by dict.copy() hold references to the same entries.
InQueue(q, id) == \E i \in 1..Len(q) : q[i].api_param = id
CellOf(q, id) == q[CHOOSE i \in 1..Len(q) : q[i].api_param = id].cell
QueueIds(q) == {q[i].api_param : i \in 1..Len(q)}
QueueCells(q) == {q[i].cell : i \in 1..Len(q)}
UsedCells == QueueCells(update_values) \cup UNION {QueueCells(upd[t].values) : t \in Tasks}

\* set_value that leaves an id already queued as it is
SetValueKeepsFirst(q, heap, used, id, v) ==
    IF InQueue(q, id)
    THEN [q |-> q, heap |-> heap]
    ELSE LET c == CHOOSE x \in Cells : x \notin used
         IN [q |-> Append(q, [api_param |-> id, cell |-> c]),
             heap |-> [heap EXCEPT ![c] = v]]

\* set_value, the upsert under _update_values_lock
SetValueQueue(q, heap, used, id, v) ==
    IF InQueue(q, id)
    THEN [q |-> q, heap |-> [heap EXCEPT ![CellOf(q, id)] = v]]
    ELSE LET c == CHOOSE x \in Cells : x \notin used
         IN [q |-> Append(q, [api_param |-> id, cell |-> c]),
             heap |-> [heap EXCEPT ![c] = v]]

\* values = self.update_values.copy(): a new dict holding the same entry objects
CopyQueue(q) == q

\* _process_value_updates, the removal of the confirmed keys
KeepEntry(e, heap, values, okkeys) ==
    ~(/\ e.api_param \in okkeys
      /\ heap[e.cell] = heap[CellOf(values, e.api_param)])
RemoveProcessed(q, heap, values, okkeys) ==
    SelectSeq(q, LAMBDA e : KeepEntry(e, heap, values, okkeys))

\* ------------------------------------------------------- login rate limiter
\* a limiter that lets one attempt too many through
CheckLoginRateLimitOffByOne(attempts) == Len(attempts) <= LOGIN_RATE_LIMIT_MAX_ATTEMPTS

\* _check_login_rate_limit: the attempts kept, and whether a login is allowed
PruneAttempts(attempts, current_time) ==
    SeqFilterGt(attempts, current_time - LOGIN_RATE_LIMIT_WINDOW)
CheckLoginRateLimit(attempts) == Len(attempts) < LOGIN_RATE_LIMIT_MAX_ATTEMPTS

\* -------------------------------------------------------------------- locks
\* a cycle lock that never makes a trigger wait
UpdatingLockAlwaysFree == TRUE

\* asyncio.Lock.acquire returns at once only when the lock is free and nobody waits
LockAvailable == lock_holder = NoTask /\ lock_waiters = <<>>
UpdatingLockAvailable == updating_holder = NoTask /\ updating_waiters = <<>>

InFlightPcs == {"l_inflight", "r_inflight", "i_inflight"}
InFlight == {t \in Tasks : pc[t] \in InFlightPcs}
SendCtxNow == [authed |-> logged_in, afterLogout |-> logoutActive]

\* ------------------------------------------------------------------- login
\* login(), from its first line to the login request (or the refusal)
LoginEnter(t) ==
    /\ running = t /\ pc[t] = "l_enter"
    /\ keep_logout' = FALSE
    /\ LET kept == PruneAttempts(login_attempts, now) IN
       IF ~CheckLoginRateLimit(kept)
       THEN /\ login_attempts' = kept
            /\ pc' = [pc EXCEPT ![t] = "l_ret"]
            /\ loginInfo' = [loginInfo EXCEPT ![t] = [before |-> logged_in, outcome |-> "limited"]]
            /\ UNCHANGED <<connector_closed, lockVars, running, attemptLog, loginSent, sendCtx>>
       ELSE /\ login_attempts' = Append(kept, now)
            /\ attemptLog' = Append(attemptLog, now)
            /\ connector_closed' = FALSE
            /\ loginInfo' = [loginInfo EXCEPT ![t] = [before |-> logged_in, outcome |-> None]]
            /\ running' = NoTask
            /\ IF LockAvailable
               THEN /\ lock_holder' = t
                    /\ pc' = [pc EXCEPT ![t] = "l_inflight"]
                    /\ loginSent' = Append(loginSent, now)
                    /\ sendCtx' = [sendCtx EXCEPT ![t] = SendCtxNow]
                    /\ UNCHANGED lock_waiters
               ELSE /\ lock_waiters' = Append(lock_waiters, t)
                    /\ pc' = [pc EXCEPT ![t] = "l_wait"]
                    /\ UNCHANGED <<lock_holder, loginSent, sendCtx>>
    /\ UNCHANGED <<logged_in, updLockVars, queueVars, clockVars, dataVars, op, main, cause, res, upd,
                   unsent, lost, call, logoutActive, updInfo, lastSet>>

\* login(), the lock is handed over: the login request is sent
LoginResume(t) ==
    /\ running = NoTask /\ pc[t] = "l_wait"
    /\ lock_holder = NoTask /\ lock_waiters # <<>> /\ Head(lock_waiters) = t
    /\ lock_holder' = t
    /\ lock_waiters' = Tail(lock_waiters)
    /\ pc' = [pc EXCEPT ![t] = "l_inflight"]
    /\ loginSent' = Append(loginSent, now)
    /\ sendCtx' = [sendCtx EXCEPT ![t] = SendCtxNow]
    /\ UNCHANGED <<devVars, updLockVars, queueVars, clockVars, dataVars, running, op, main, cause, res,
                   upd, unsent, lost, call, logoutActive, updInfo, loginInfo, lastSet,
                   attemptLog>>

\* a failed login request that leaves the flag as it was
LoginFailedKeepsFlag(before) == before

\* the authenticated flag after a login request that failed
LoginFailedFlag(before) == FALSE

\* login(), the device answers the login request (or the request fails)
LoginResponse(t, r) ==
    /\ running = NoTask /\ pc[t] = "l_inflight" /\ r \in {"ok", "err"}
    /\ lock_holder' = NoTask
    /\ logged_in' = IF r = "ok" THEN TRUE ELSE LoginFailedFlag(logged_in)
    /\ loginInfo' = [loginInfo EXCEPT ![t].outcome = IF r = "ok" THEN "ok" ELSE "fail"]
    /\ pc' = [pc EXCEPT ![t] = "l_ret"]
    /\ running' = t
    /\ sendCtx' = [sendCtx EXCEPT ![t] = NoCtx]
    /\ UNCHANGED <<keep_logout, connector_closed, login_attempts, lock_waiters, updLockVars,
                   queueVars, clockVars, dataVars, op, main, cause, res, upd, unsent, lost, call,
                   logoutActive, updInfo, lastSet, attemptLog, loginSent>>

\* ------------------------------------------------------- request executor
\* _get, _post and _update_value share one shape; main[t].kind tells them apart.
\* Only _get and _post log in before the request (alfen.py 518, 595).
LoginsBefore(m) == m.kind \in {"get", "post"} /\ m.allowed

\* _get / _post / _update_value, from the first line to the lock
RequestEnter(t) ==
    /\ running = t /\ pc[t] = "r_enter"
    /\ IF keep_logout
       THEN /\ res' = [res EXCEPT ![t] = None]
            /\ pc' = [pc EXCEPT ![t] = "r_ret"]
            /\ UNCHANGED cause
       ELSE IF ~logged_in /\ LoginsBefore(main[t])
       THEN /\ cause' = [cause EXCEPT ![t] = "pre"]
            /\ pc' = [pc EXCEPT ![t] = "l_enter"]
            /\ UNCHANGED res
       ELSE /\ pc' = [pc EXCEPT ![t] = "r_lock"]
            /\ UNCHANGED <<res, cause>>
    /\ UNCHANGED <<devVars, lockVars, updLockVars, queueVars, clockVars, dataVars, running, op, main,
                   upd, histVars>>

\* the write reaches the device: the queued value of the id counts as sent
UnsentAfterSend(m) ==
    IF /\ m.kind = "write"
       /\ InQueue(update_values, m.id)
       /\ cellval[CellOf(update_values, m.id)] = m.val
    THEN [unsent EXCEPT ![m.id] = FALSE]
    ELSE unsent

\* the request goes out (session.get / session.post under self._lock)
SendRequest(t) ==
    /\ lock_holder' = t
    /\ pc' = [pc EXCEPT ![t] = "r_inflight"]
    /\ sendCtx' = [sendCtx EXCEPT ![t] = SendCtxNow]
    /\ call' = [call EXCEPT ![t].sends = @ + 1]
    /\ unsent' = UnsentAfterSend(main[t])
    /\ updInfo' = IF op[t] = "update" THEN [updInfo EXCEPT ![t].sent = TRUE] ELSE updInfo

\* async with self._lock: the request is sent at once, or the task waits
RequestLock(t) ==
    /\ running = t /\ pc[t] = "r_lock"
    /\ running' = NoTask
    /\ IF LockAvailable
       THEN SendRequest(t) /\ UNCHANGED lock_waiters
       ELSE /\ lock_waiters' = Append(lock_waiters, t)
            /\ pc' = [pc EXCEPT ![t] = "r_wait"]
            /\ UNCHANGED <<lock_holder, sendCtx, call, unsent, updInfo>>
    /\ UNCHANGED <<devVars, updLockVars, queueVars, clockVars, dataVars, op, main, cause, res, upd,
                   lost, logoutActive, loginInfo, lastSet, attemptLog, loginSent>>

\* the lock is handed over to the waiting request
RequestResume(t) ==
    /\ running = NoTask /\ pc[t] = "r_wait"
    /\ lock_holder = NoTask /\ lock_waiters # <<>> /\ Head(lock_waiters) = t
    /\ lock_waiters' = Tail(lock_waiters)
    /\ SendRequest(t)
    /\ UNCHANGED <<devVars, updLockVars, queueVars, clockVars, dataVars, running, op, main, cause, res,
                   upd, lost, logoutActive, loginInfo, lastSet, attemptLog, loginSent>>

\* a retry that may log in again
RetryCallKeepsLogin(m) == m

\* the call made again after the re-login: allowed_login = False
RetryCall(m) == [m EXCEPT !.allowed = FALSE]

\* the ways a request fails in transport: a timeout, a connection error, an error
\* status (raise_for_status), a body that does not parse
TransportFailures == {"timeout", "connection", "status", "body"}

\* a request that lets the error of an unparsable body through
RequestResultReraises(r, allowed) ==
    IF r = "ok" THEN "ok" ELSE IF r = "body" THEN "raise" ELSE None

\* what the call returns when it does not log in again: the result, or None from
\* `except TimeoutError` and `except Exception` (a 401 with allowed_login False
\* and the JSONDecodeError raised again at alfen.py 567 end there too)
RequestResult(r, allowed) == IF r = "ok" THEN "ok" ELSE None

\* the device answers (or the request fails): alfen.py 547-573, 627-648, 904-920
RequestResponse(t, r) ==
    /\ running = NoTask /\ pc[t] = "r_inflight"
    /\ lock_holder' = NoTask
    /\ running' = t
    /\ sendCtx' = [sendCtx EXCEPT ![t] = NoCtx]
    /\ IF r = "401" /\ main[t].allowed
       THEN /\ logged_in' = FALSE
            /\ cause' = [cause EXCEPT ![t] = "re"]
            /\ pc' = [pc EXCEPT ![t] = "l_enter"]
            /\ call' = [call EXCEPT ![t].first401 = TRUE, ![t].relogins = @ + 1,
                                    ![t].last = r]
            /\ UNCHANGED res
       ELSE /\ res' = [res EXCEPT ![t] = RequestResult(r, main[t].allowed)]
            /\ pc' = [pc EXCEPT ![t] = "r_ret"]
            /\ call' = [call EXCEPT ![t].last = r]
            /\ UNCHANGED <<logged_in, cause>>
    /\ UNCHANGED <<keep_logout, connector_closed, login_attempts, lock_waiters, updLockVars,
                   queueVars, clockVars, dataVars, op, main, upd, unsent, lost, logoutActive, updInfo,
                   loginInfo, lastSet, attemptLog, loginSent>>

\* _get and _post retry only when the re-login succeeded; _update_value always
RetriesAfterLogin(m, authed) == m.kind = "write" \/ authed

\* a login check that lets the cycle go on whatever the login did
ProactiveLoginAlwaysPasses(flag) == TRUE

\* _proactive_login: return self.logged_in (alfen.py 222)
ProactiveLoginPassed(flag) == flag

\* login() returns to the place that called it
LoginReturn(t) ==
    /\ running = t /\ pc[t] = "l_ret"
    /\ loginInfo' = [loginInfo EXCEPT ![t] = NoLoginInfo]
    /\ CASE cause[t] = "explicit" ->
              /\ pc' = [pc EXCEPT ![t] = "idle"]
              /\ op' = [op EXCEPT ![t] = None]
              /\ running' = NoTask
              /\ UNCHANGED <<main, res, updLockVars, upd, updInfo>>
         [] cause[t] = "init" ->
              /\ pc' = [pc EXCEPT ![t] = "i_login_ret"]
              /\ UNCHANGED <<op, running, main, res, updLockVars, upd, updInfo>>
         [] cause[t] = "proactive" ->
              \* _proactive_login returns self.logged_in; async_update returns False
              IF ProactiveLoginPassed(logged_in)
              THEN /\ pc' = [pc EXCEPT ![t] = "u_drain"]
                   /\ UNCHANGED <<op, running, main, res, updLockVars, upd, updInfo>>
              ELSE /\ pc' = [pc EXCEPT ![t] = "u_ret"]
                   /\ res' = [res EXCEPT ![t] = "failed"]
                   /\ updating_holder' = NoTask
                   /\ UNCHANGED <<op, running, main, updating_waiters, upd, updInfo>>
         [] cause[t] = "pre" ->
              IF logged_in
              THEN /\ pc' = [pc EXCEPT ![t] = "r_lock"]
                   /\ UNCHANGED <<op, running, main, res, updLockVars, upd, updInfo>>
              ELSE /\ pc' = [pc EXCEPT ![t] = "r_ret"]
                   /\ res' = [res EXCEPT ![t] = None]
                   /\ UNCHANGED <<op, running, main, updLockVars, upd, updInfo>>
         [] cause[t] = "re" ->
              IF RetriesAfterLogin(main[t], logged_in)
              THEN /\ main' = [main EXCEPT ![t] = RetryCall(main[t])]
                   /\ pc' = [pc EXCEPT ![t] = "r_enter"]
                   /\ UNCHANGED <<op, running, res, updLockVars, upd, updInfo>>
              ELSE /\ pc' = [pc EXCEPT ![t] = "r_ret"]
                   /\ res' = [res EXCEPT ![t] = None]
                   /\ UNCHANGED <<op, running, main, updLockVars, upd, updInfo>>
    /\ cause' = [cause EXCEPT ![t] = None]
    /\ call' = IF cause[t] = "re"
               THEN [call EXCEPT ![t].reauth = IF logged_in THEN "yes" ELSE "no"]
               ELSE call
    /\ UNCHANGED <<devVars, lockVars, queueVars, clockVars, dataVars, unsent, lost, sendCtx,
                   logoutActive, lastSet, attemptLog, loginSent>>

\* ---------------------------------------------------------- update cycle
\* the coordinator's interval timer creates a refresh task
PeriodicTrigger(t) ==
    /\ running = NoTask /\ t \in Updaters /\ pc[t] = "idle"
    /\ pc' = [pc EXCEPT ![t] = "u_enter"]
    /\ op' = [op EXCEPT ![t] = "update"]
    /\ UNCHANGED <<devVars, lockVars, updLockVars, queueVars, clockVars, dataVars, running, main, cause,
                   res, upd, histVars>>

\* async_update that returns at once when a cycle is running
UpdateEnterNoWait(t) ==
    /\ running = NoTask /\ pc[t] = "u_enter"
    /\ IF keep_logout \/ updating_holder # NoTask \/ updating_waiters # <<>>
       THEN /\ pc' = [pc EXCEPT ![t] = "u_ret"]
            /\ res' = [res EXCEPT ![t] = "skipped"]
            /\ updInfo' = [updInfo EXCEPT ![t] = [busy |-> updating_holder # NoTask,
                                                   flag |-> keep_logout, ran |-> FALSE, sent |-> FALSE, drained |-> FALSE]]
            /\ UNCHANGED updLockVars
       ELSE /\ updating_holder' = t
            /\ pc' = [pc EXCEPT ![t] = "u_login"]
            /\ updInfo' = [updInfo EXCEPT ![t] = [busy |-> FALSE, flag |-> FALSE,
                                                   ran |-> TRUE, sent |-> FALSE, drained |-> FALSE]]
            /\ UNCHANGED <<res, updating_waiters>>
    /\ running' = t
    /\ UNCHANGED <<devVars, lockVars, queueVars, clockVars, dataVars, op, main, cause, upd, unsent, lost,
                   call, sendCtx, logoutActive, loginInfo, lastSet, attemptLog, loginSent>>

\* async_update, from its first line to the cycle lock (alfen.py 467-473)
UpdateEnter(t) ==
    /\ running = NoTask /\ pc[t] = "u_enter"
    /\ IF keep_logout
       THEN /\ pc' = [pc EXCEPT ![t] = "u_ret"]
            /\ res' = [res EXCEPT ![t] = "skipped"]
            /\ running' = t
            /\ updInfo' = [updInfo EXCEPT ![t] = [busy |-> updating_holder # NoTask, flag |-> keep_logout,
                                                   ran |-> FALSE, sent |-> FALSE, drained |-> FALSE]]
            /\ UNCHANGED updLockVars
       ELSE IF UpdatingLockAvailable
       THEN /\ updating_holder' = t
            /\ pc' = [pc EXCEPT ![t] = "u_login"]
            /\ running' = t
            /\ updInfo' = [updInfo EXCEPT ![t] = [busy |-> updating_holder # NoTask, flag |-> keep_logout,
                                                   ran |-> TRUE, sent |-> FALSE, drained |-> FALSE]]
            /\ UNCHANGED <<res, updating_waiters>>
       ELSE /\ updating_waiters' = Append(updating_waiters, t)
            /\ pc' = [pc EXCEPT ![t] = "u_wait"]
            /\ updInfo' = [updInfo EXCEPT ![t] = [busy |-> updating_holder # NoTask, flag |-> keep_logout,
                                                   ran |-> FALSE, sent |-> FALSE, drained |-> FALSE]]
            /\ UNCHANGED <<res, running, updating_holder>>
    /\ UNCHANGED <<devVars, lockVars, queueVars, clockVars, dataVars, op, main, cause, upd, unsent, lost,
                   call, sendCtx, logoutActive, loginInfo, lastSet, attemptLog, loginSent>>

\* the cycle lock is handed over to the waiting trigger
UpdateResume(t) ==
    /\ running = NoTask /\ pc[t] = "u_wait"
    /\ updating_holder = NoTask /\ updating_waiters # <<>> /\ Head(updating_waiters) = t
    /\ updating_holder' = t
    /\ updating_waiters' = Tail(updating_waiters)
    /\ pc' = [pc EXCEPT ![t] = "u_login"]
    /\ running' = t
    /\ updInfo' = [updInfo EXCEPT ![t].ran = TRUE]
    /\ UNCHANGED <<devVars, lockVars, queueVars, clockVars, dataVars, op, main, cause, res, upd, unsent,
                   lost, call, sendCtx, logoutActive, loginInfo, lastSet, attemptLog,
                   loginSent>>

\* _proactive_login (alfen.py 202-223)
ProactiveLogin(t) ==
    /\ running = t /\ pc[t] = "u_login"
    /\ IF ~logged_in
       THEN /\ cause' = [cause EXCEPT ![t] = "proactive"]
            /\ pc' = [pc EXCEPT ![t] = "l_enter"]
       ELSE /\ pc' = [pc EXCEPT ![t] = "u_drain"]
            /\ UNCHANGED cause
    /\ UNCHANGED <<devVars, lockVars, updLockVars, queueVars, clockVars, dataVars, running, op, main,
                   res, upd, histVars>>

\* _process_value_updates: the copy of the queue (alfen.py 232-238)
DrainSnapshot(t) ==
    /\ running = t /\ pc[t] = "u_drain"
    /\ upd' = [upd EXCEPT ![t] = [values |-> CopyQueue(update_values), idx |-> 1,
                                  okkeys |-> {}, stage |-> "drain", gets |-> 0,
                                  resent |-> FALSE]]
    /\ lastSet' = [i \in Ids |-> NoSet]
    /\ updInfo' = [updInfo EXCEPT ![t].drained = TRUE]
    /\ pc' = [pc EXCEPT ![t] = "u_loop"]
    /\ UNCHANGED <<devVars, lockVars, updLockVars, queueVars, clockVars, dataVars, running, op, main,
                   cause, res, unsent, lost, call, sendCtx, logoutActive, loginInfo,
                   attemptLog, loginSent>>

\* for key, value in values.items(): _update_value(value["api_param"], value["value"])
DrainNext(t) ==
    /\ running = t /\ pc[t] = "u_loop"
    /\ IF upd[t].idx <= Len(upd[t].values)
       THEN LET e == upd[t].values[upd[t].idx] IN
            /\ main' = [main EXCEPT ![t] = [kind |-> "write", id |-> e.api_param,
                                            val |-> cellval[e.cell], allowed |-> TRUE]]
            /\ pc' = [pc EXCEPT ![t] = "r_enter"]
       ELSE /\ pc' = [pc EXCEPT ![t] = "u_remove"]
            /\ UNCHANGED main
    /\ UNCHANGED <<devVars, lockVars, updLockVars, queueVars, clockVars, dataVars, running, op, cause,
                   res, upd, histVars>>

\* _get / _post / _update_value return to the caller
RequestReturn(t) ==
    /\ running = t /\ pc[t] = "r_ret"
    /\ call' = [call EXCEPT ![t] = NoCall]
    /\ failedWrites' = IF op[t] = "update" /\ upd[t].stage = "drain" /\ call[t].sends > 0
                       THEN failedWrites \ {main[t].id}
                       ELSE failedWrites
    /\ upd' = IF /\ op[t] = "update" /\ upd[t].stage = "drain" /\ call[t].sends > 0
                 /\ main[t].id \in failedWrites
              THEN [upd EXCEPT ![t].resent = TRUE]
              ELSE upd
    /\ IF op[t] = "update"
       THEN /\ pc' = [pc EXCEPT ![t] = IF upd[t].stage = "drain" THEN "u_drain_ret"
                                       ELSE "u_fetch_ret"]
            /\ UNCHANGED <<op, running, main, res>>
       ELSE /\ pc' = [pc EXCEPT ![t] = "idle"]
            /\ op' = [op EXCEPT ![t] = None]
            /\ main' = [main EXCEPT ![t] = NoMain]
            /\ res' = [res EXCEPT ![t] = None]
            /\ running' = NoTask
    /\ UNCHANGED <<devVars, lockVars, updLockVars, queueVars, clockVars, fetch, latest_tag,
                   logline, tagFrom, rot, setterCall, txVars, bootVars, schedVars, properties, cause,
                   unsent,
                   lost, sendCtx, logoutActive, updInfo, loginInfo, lastSet, attemptLog,
                   loginSent>>

\* a drain that leaves the cached value as it was
CacheKeepsOld(props, id, v, ok) == props

\* if response: if api_param in self.properties: prop[VALUE] = value["value"]
\* (alfen.py 246-257)
CacheAfterWrite(props, id, v, ok) ==
    IF ok /\ props[id].cached THEN [props EXCEPT ![id].value = v] ELSE props

\* if response: successfully_processed_keys.add(key) (alfen.py 246-271); the value
\* cached is value["value"] as it is read after the await, from the dict that the
\* copy of the queue shares with the queue
DrainResult(t) ==
    /\ running = t /\ pc[t] = "u_drain_ret"
    /\ upd' = [upd EXCEPT ![t].idx = @ + 1,
                          ![t].okkeys = IF res[t] = "ok" THEN @ \cup {main[t].id} ELSE @]
    /\ main' = [main EXCEPT ![t] = NoMain]
    /\ res' = [res EXCEPT ![t] = None]
    /\ properties' = CacheAfterWrite(properties, main[t].id,
                                     cellval[CellOf(upd[t].values, main[t].id)], res[t] = "ok")
    /\ pc' = [pc EXCEPT ![t] = "u_loop"]
    /\ UNCHANGED <<devVars, lockVars, updLockVars, queueVars, clockVars, fetch, latest_tag,
                   logline, tagFrom, rot, setterCall, txVars, bootVars, schedVars, failedWrites, running, op,
                   cause,
                   histVars>>

\* the removal of the confirmed keys, logged_in = False, and the start of the
\* confirmation fetch (alfen.py 275-300)
DrainRemove(t) ==
    /\ running = t /\ pc[t] = "u_remove"
    /\ LET okkeys == upd[t].okkeys
           newq == IF okkeys # {}
                   THEN RemoveProcessed(update_values, cellval, upd[t].values, okkeys)
                   ELSE update_values
           gone == QueueIds(update_values) \ QueueIds(newq)
       IN /\ update_values' = newq
          /\ cellval' = [c \in Cells |-> IF c \in QueueCells(newq) THEN cellval[c] ELSE 0]
          /\ lost' = {i \in gone : unsent[i]}
          /\ unsent' = [i \in Ids |-> IF i \in gone THEN FALSE ELSE unsent[i]]
          /\ logged_in' = IF okkeys # {} THEN FALSE ELSE logged_in
          /\ \E n \in 0..MaxGets :
                upd' = [upd EXCEPT ![t] = [values |-> <<>>, idx |-> 0, okkeys |-> {},
                                           stage |-> IF okkeys # {} THEN "post" ELSE "main",
                                           gets |-> n, resent |-> FALSE]]
          /\ failedWrites' = QueueIds(upd[t].values) \ okkeys
    /\ lastSet' = [i \in Ids |-> NoSet]
    /\ pc' = [pc EXCEPT ![t] = "u_fetch"]
    /\ UNCHANGED <<keep_logout, connector_closed, login_attempts, lockVars, updLockVars,
                   clockVars, fetch, latest_tag, logline, tagFrom, rot, setterCall, txVars,
                   bootVars, schedVars, properties, running, op, main, cause, res, call, sendCtx, logoutActive,
                   updInfo, loginInfo, attemptLog, loginSent>>

\* the GET calls of the confirmation fetch and of the static, rotating, log and
\* transaction stages (alfen.py 326-336, 490-502); the end of the cycle
FetchNext(t) ==
    /\ running = t /\ pc[t] = "u_fetch"
    /\ IF upd[t].gets > 0
       THEN /\ main' = [main EXCEPT ![t] = [kind |-> "get", id |-> 0, val |-> 0,
                                            allowed |-> TRUE]]
            /\ pc' = [pc EXCEPT ![t] = "r_enter"]
            /\ UNCHANGED <<upd, res, updating_holder>>
       ELSE IF upd[t].stage = "post"
       THEN /\ \E n \in 0..MaxGets :
                  upd' = [upd EXCEPT ![t].stage = "main", ![t].gets = n]
            /\ UNCHANGED <<main, pc, res, updating_holder>>
       ELSE /\ upd' = [upd EXCEPT ![t] = NoUpd]
            /\ res' = [res EXCEPT ![t] = "done"]
            /\ pc' = [pc EXCEPT ![t] = "u_ret"]
            /\ updating_holder' = NoTask
            /\ UNCHANGED main
    /\ lost' = {}
    /\ UNCHANGED <<devVars, lockVars, updating_waiters, queueVars, clockVars, dataVars, running, op,
                   cause, unsent, call, sendCtx, logoutActive, updInfo, loginInfo, lastSet,
                   attemptLog, loginSent>>

\* a GET of the cycle returned; asyncio.sleep before the next one, or none
FetchResult(t) ==
    /\ running = t /\ pc[t] = "u_fetch_ret"
    /\ upd' = [upd EXCEPT ![t].gets = @ - 1]
    /\ main' = [main EXCEPT ![t] = NoMain]
    /\ res' = [res EXCEPT ![t] = None]
    /\ \/ /\ pc' = [pc EXCEPT ![t] = "u_fetch"]
          /\ UNCHANGED running
       \/ /\ pc' = [pc EXCEPT ![t] = "u_sleep"]
          /\ running' = NoTask
    /\ UNCHANGED <<devVars, lockVars, updLockVars, queueVars, clockVars, dataVars, op, cause, histVars>>

\* asyncio.sleep ends
Wake(t) ==
    /\ running = NoTask /\ pc[t] = "u_sleep"
    /\ pc' = [pc EXCEPT ![t] = "u_fetch"]
    /\ running' = t
    /\ UNCHANGED <<devVars, lockVars, updLockVars, queueVars, clockVars, dataVars, op, main, cause, res,
                   upd, histVars>>

\* async_update returns to _async_update_data, which returns or raises
\* UpdateFailed (coordinator.py 152-161)
UpdateReturn(t) ==
    /\ running = t /\ pc[t] = "u_ret"
    /\ pc' = [pc EXCEPT ![t] = "idle"]
    /\ op' = [op EXCEPT ![t] = None]
    /\ res' = [res EXCEPT ![t] = None]
    /\ upd' = [upd EXCEPT ![t] = NoUpd]
    /\ updInfo' = [updInfo EXCEPT ![t] = NoUpdInfo]
    /\ running' = NoTask
    /\ UNCHANGED <<devVars, lockVars, updLockVars, queueVars, clockVars, dataVars, main, cause,
                   unsent, lost, call, sendCtx, logoutActive, loginInfo, lastSet, attemptLog,
                   loginSent>>

\* --------------------------------------------------------------- timeouts
SuspendedInCycle == {"u_wait", "l_wait", "l_inflight", "r_wait", "r_inflight", "u_sleep"}

\* a cancellation that does not unwind the async with blocks
CancelKeepsLocks(t) == UNCHANGED <<lockVars, updLockVars>>

\* the task is cancelled: every lock it holds or waits for is given up
CancelLocks(t) ==
    /\ lock_holder' = IF lock_holder = t THEN NoTask ELSE lock_holder
    /\ lock_waiters' = SeqRemove(lock_waiters, t)
    /\ updating_holder' = IF updating_holder = t THEN NoTask ELSE updating_holder
    /\ updating_waiters' = SeqRemove(updating_waiters, t)

\* a timeout handler that leaves the authenticated flag as it is
TimeoutKeepsFlag(flag) == flag

\* self.device.logged_in = False in the TimeoutError handler (coordinator.py 158)
TimeoutFlag(flag) == FALSE

\* async with timeout(update_timeout) expires: the cycle is cancelled, logged_in is
\* reset and UpdateFailed is raised (coordinator.py 151-161)
CycleTimeout(t) ==
    /\ running = NoTask /\ op[t] = "update" /\ pc[t] \in SuspendedInCycle
    /\ CancelLocks(t)
    /\ logged_in' = TimeoutFlag(logged_in)
    /\ pc' = [pc EXCEPT ![t] = "u_ret"]
    /\ running' = t
    /\ main' = [main EXCEPT ![t] = NoMain]
    /\ cause' = [cause EXCEPT ![t] = None]
    /\ res' = [res EXCEPT ![t] = "timeout"]
    /\ call' = [call EXCEPT ![t] = NoCall]
    /\ sendCtx' = [sendCtx EXCEPT ![t] = NoCtx]
    /\ updInfo' = [updInfo EXCEPT ![t] = NoUpdInfo]
    /\ loginInfo' = [loginInfo EXCEPT ![t] = NoLoginInfo]
    /\ UNCHANGED <<keep_logout, connector_closed, login_attempts, queueVars, clockVars, dataVars,
                   op, upd, unsent, lost, logoutActive, lastSet, attemptLog, loginSent>>

\* async with timeout(10) around the proactive login expires (alfen.py 206-213)
ProactiveLoginTimeout(t) ==
    /\ running = NoTask /\ op[t] = "update" /\ cause[t] = "proactive"
    /\ pc[t] \in {"l_wait", "l_inflight"}
    /\ lock_holder' = IF lock_holder = t THEN NoTask ELSE lock_holder
    /\ lock_waiters' = SeqRemove(lock_waiters, t)
    /\ logged_in' = FALSE
    /\ updating_holder' = NoTask
    /\ pc' = [pc EXCEPT ![t] = "u_ret"]
    /\ res' = [res EXCEPT ![t] = "failed"]
    /\ cause' = [cause EXCEPT ![t] = None]
    /\ running' = t
    /\ sendCtx' = [sendCtx EXCEPT ![t] = NoCtx]
    /\ loginInfo' = [loginInfo EXCEPT ![t] = NoLoginInfo]
    /\ UNCHANGED <<keep_logout, connector_closed, login_attempts, updating_waiters, queueVars,
                   clockVars, dataVars, op, main, upd, unsent, lost, call, logoutActive, updInfo,
                   lastSet, attemptLog, loginSent>>

\* ------------------------------------------------------- upstream callers
IdleUpdaters(pool) == {u \in pool : pc[u] = "idle"}

\* set_value: the upsert, then asyncio.create_task(self._value_updated_callback())
\* (alfen.py 1297-1322); the refresh task takes a free task slot of the pool
SetValueEffect(id, v, pool) ==
    /\ LET new == SetValueQueue(update_values, cellval, UsedCells, id, v)
           same == InQueue(update_values, id) /\ cellval[CellOf(update_values, id)] = v
       IN /\ update_values' = new.q
          /\ cellval' = new.heap
          /\ unsent' = IF same THEN unsent ELSE [unsent EXCEPT ![id] = TRUE]
    /\ lastSet' = [lastSet EXCEPT ![id] =
            [val |-> v, over |-> InQueue(update_values, id)
                                 /\ cellval[CellOf(update_values, id)] # v]]
    /\ IF IdleUpdaters(pool) # {}
       THEN LET u == CHOOSE x \in IdleUpdaters(pool) : TRUE IN
            /\ pc' = [pc EXCEPT ![u] = "u_enter"]
            /\ op' = [op EXCEPT ![u] = "update"]
       ELSE UNCHANGED <<pc, op>>

\* the places at which a task is suspended inside `async with
\* self._update_values_lock`: the three blocks (alfen.py 232-233, 276-288,
\* 1297-1313) hold no await
UpdateValuesLockPcs == {}

\* a drain that keeps the queue lock while it sends its writes
UpdateValuesLockHeldByDrain == \A t \in Tasks : upd[t].stage # "drain"

\* self._update_values_lock is free for the task that runs
UpdateValuesLockAvailable == \A t \in Tasks : pc[t] \notin UpdateValuesLockPcs

CallSetValue(t, id, v, pool) ==
    /\ running = NoTask /\ t \in Callers /\ pc[t] = "idle"
    /\ UpdateValuesLockAvailable
    /\ SetValueEffect(id, v, pool)
    /\ UNCHANGED <<devVars, lockVars, updLockVars, clockVars, dataVars, running, main, cause,
                   res, upd, lost, call, sendCtx, logoutActive, updInfo, loginInfo,
                   attemptLog, loginSent>>

\* ----------------------------------------------------------- typed setters
Setters == {"set_current_limit", "set_current_phase", "set_green_share", "set_comfort_power"}

\* the property each setter writes: "2129_0", "2069_0", "3280_2", "3280_3"
\* (alfen.py 1333, 1347, 1361, 1368), numbered as the model numbers ids
SetterId(setter) ==
    CASE setter = "set_current_limit" -> 1
      [] setter = "set_current_phase" -> 2
      [] setter = "set_green_share" -> 3
      [] setter = "set_comfort_power" -> 4

\* the phase names "L1", "L2", "L3" written as their numbers; any other string
\* is a number outside 1..3
ValidPhases == {1, 2, 3}

\* inputs on both sides of each limit
SetterInputs(setter) ==
    CASE setter = "set_current_limit" -> {0, 1, 32, 33}
      [] setter = "set_current_phase" -> {0, 1, 3, 4}
      [] setter = "set_green_share" -> {-1, 0, 100, 101}
      [] setter = "set_comfort_power" -> {1399, 1400, 5000, 5001}

\* setters that pass every input on
SetterAcceptsAll(setter, x) == TRUE

\* the guards of the setters: `if ...: return` (alfen.py 1331, 1345, 1359, 1366)
SetterAccepts(setter, x) ==
    CASE setter = "set_current_limit" -> ~(x > 32 \/ x < 1)
      [] setter = "set_current_phase" -> ~(x \notin ValidPhases)
      [] setter = "set_green_share" -> ~(x < 0 \/ x > 100)
      [] setter = "set_comfort_power" -> ~(x < 1400 \/ x > 5000)

\* a typed setter: return on a rejected input, else await self.set_value(id, x);
\* an accepted input is modelled for the ids the queue of the model has
CallSetter(t, setter, x, pool) ==
    /\ running = NoTask /\ t \in Callers /\ pc[t] = "idle"
    /\ x \in SetterInputs(setter)
    /\ setterCall' = [setter |-> setter, x |-> x, n |-> 1 - setterCall.n]
    /\ IF SetterAccepts(setter, x)
       THEN /\ SetterId(setter) \in Ids
            /\ UpdateValuesLockAvailable
            /\ SetValueEffect(SetterId(setter), x, pool)
       ELSE UNCHANGED <<queueVars, unsent, lastSet, pc, op>>
    /\ UNCHANGED <<devVars, lockVars, updLockVars, clockVars, running, main, cause, res, upd,
                   lost, call, sendCtx, logoutActive, updInfo, loginInfo, attemptLog,
                   loginSent, fetch, latest_tag, logline, tagFrom, rot, txVars, drainVars, bootVars, schedVars>>

\* an upstream caller calls login()
CallLogin(t) ==
    /\ running = NoTask /\ t \in Callers /\ pc[t] = "idle"
    /\ pc' = [pc EXCEPT ![t] = "l_enter"]
    /\ op' = [op EXCEPT ![t] = "login"]
    /\ cause' = [cause EXCEPT ![t] = "explicit"]
    /\ running' = t
    /\ logoutActive' = FALSE
    /\ UNCHANGED <<devVars, lockVars, updLockVars, queueVars, clockVars, dataVars, main, res, upd,
                   unsent, lost, call, sendCtx, updInfo, loginInfo, lastSet, attemptLog,
                   loginSent>>

\* logout(): keep_logout = True; _post(LOGOUT, allowed_login=False) returns None at
\* its first line because keep_logout is set; logged_in = False; the connector is
\* closed (alfen.py 862-885, 514-515)
CallLogout(t) ==
    /\ running = NoTask /\ t \in Callers /\ pc[t] = "idle"
    /\ keep_logout' = TRUE
    /\ logged_in' = FALSE
    /\ connector_closed' = TRUE
    /\ logoutActive' = TRUE
    /\ UNCHANGED <<login_attempts, lockVars, updLockVars, queueVars, clockVars, dataVars, taskVars,
                   unsent, lost, call, sendCtx, updInfo, loginInfo, lastSet, attemptLog,
                   loginSent>>

\* request / send_command / get_value: one _get or _post call (alfen.py 1280-1288)
CallRequest(t, k) ==
    /\ running = NoTask /\ t \in Callers /\ pc[t] = "idle"
    /\ pc' = [pc EXCEPT ![t] = "r_enter"]
    /\ op' = [op EXCEPT ![t] = "request"]
    /\ main' = [main EXCEPT ![t] = [kind |-> k, id |-> 0, val |-> 0, allowed |-> TRUE]]
    /\ running' = t
    /\ UNCHANGED <<devVars, lockVars, updLockVars, queueVars, clockVars, dataVars, cause, res, upd,
                   histVars>>

\* init(), up to the login or to get_info (alfen.py 129-139)
CallInit(t) ==
    /\ running = NoTask /\ t \in Callers /\ pc[t] = "idle"
    /\ op' = [op EXCEPT ![t] = "init"]
    /\ running' = t
    /\ IF ~logged_in
       THEN /\ pc' = [pc EXCEPT ![t] = "l_enter"]
            /\ cause' = [cause EXCEPT ![t] = "init"]
            /\ logoutActive' = FALSE
       ELSE /\ pc' = [pc EXCEPT ![t] = "i_info"]
            /\ UNCHANGED <<cause, logoutActive>>
    /\ UNCHANGED <<devVars, lockVars, updLockVars, queueVars, clockVars, dataVars, main, res, upd,
                   unsent, lost, call, sendCtx, updInfo, loginInfo, lastSet, attemptLog,
                   loginSent>>

\* init(), after login(): give up or go on to get_info (alfen.py 135-139)
InitAfterLogin(t) ==
    /\ running = t /\ pc[t] = "i_login_ret"
    /\ IF logged_in
       THEN /\ pc' = [pc EXCEPT ![t] = "i_info"]
            /\ UNCHANGED <<op, running>>
       ELSE /\ pc' = [pc EXCEPT ![t] = "idle"]
            /\ op' = [op EXCEPT ![t] = None]
            /\ running' = NoTask
    /\ UNCHANGED <<devVars, lockVars, updLockVars, queueVars, clockVars, dataVars, main, cause, res,
                   upd, histVars>>

\* get_info: self._session.get(...) with no lock taken (alfen.py 165)
GetInfoSend(t) ==
    /\ running = t /\ pc[t] = "i_info"
    /\ pc' = [pc EXCEPT ![t] = "i_inflight"]
    /\ running' = NoTask
    /\ sendCtx' = [sendCtx EXCEPT ![t] = SendCtxNow]
    /\ UNCHANGED <<devVars, lockVars, updLockVars, queueVars, clockVars, dataVars, op, main, cause, res,
                   upd, unsent, lost, call, logoutActive, updInfo, loginInfo, lastSet,
                   attemptLog, loginSent>>

\* get_info: the device answers; init() returns (alfen.py 168-183, 140-144)
GetInfoResponse(t) ==
    /\ running = NoTask /\ pc[t] = "i_inflight"
    /\ pc' = [pc EXCEPT ![t] = "idle"]
    /\ op' = [op EXCEPT ![t] = None]
    /\ sendCtx' = [sendCtx EXCEPT ![t] = NoCtx]
    /\ UNCHANGED <<devVars, lockVars, updLockVars, queueVars, clockVars, dataVars, running, main, cause,
                   res, upd, unsent, lost, call, logoutActive, updInfo, loginInfo, lastSet,
                   attemptLog, loginSent>>

\* time passes while no task holds the event loop
Tick(d) ==
    /\ running = NoTask /\ ticks < MaxTicks
    /\ now' = now + d
    /\ ticks' = ticks + 1
    \* the two logs keep the last LOGIN_RATE_LIMIT_WINDOW seconds
    /\ attemptLog' = PruneAttempts(attemptLog, now')
    /\ loginSent' = PruneAttempts(loginSent, now')
    /\ UNCHANGED <<devVars, lockVars, updLockVars, queueVars, taskVars, unsent, lost, call,
                   sendCtx, logoutActive, updInfo, loginInfo, lastSet, dataVars>>

\* ------------------------------------------------------- paginated fetch
\* _get_all_properties_value(category), with _get seen from outside: it returns
\* None, a valid page (n properties and a total) or something that is not a page.
\* The device's properties of the category are numbered 1, 2, ...; a page asked
\* at offset o with n properties holds the properties o+1 .. o+n.
PageAt(o, n) == [i \in 1..n |-> o + i]

\* an offset that advances by one page, whatever the page held
NextOffsetByOne(offset, n) == offset + 1

\* offset += len(response[PROPERTIES]) (alfen.py 980)
NextOffset(offset, n) == offset + n

\* nextRequest = response[TOTAL] > (offset + len(response[PROPERTIES])) (alfen.py 979)
MorePages(total, offset, n) == total > offset + n

\* a fetcher that gives up one null response later
GivesUpLate(attempt) == attempt > MaxFetchAttempts

\* elif attempt >= 3: break (alfen.py 981)
GivesUp(attempt) == attempt >= MaxFetchAttempts

\* the call: properties = [], nextRequest = True, offset = 0, attempt = 0
GetAllStart ==
    /\ fetch.pc = "idle"
    /\ fetch' = [NoFetch EXCEPT !.pc = "loop"]
    /\ UNCHANGED <<devVars, lockVars, updLockVars, queueVars, clockVars, taskVars, histVars,
                   latest_tag, logline, tagFrom, rot, setterCall, txVars, drainVars, bootVars, schedVars>>

\* while nextRequest: attempt += 1; response = await self._get(... OFFSET: offset)
GetAllRequest ==
    /\ fetch.pc = "loop"
    /\ fetch' = [fetch EXCEPT !.pc = "inflight", !.attempt = @ + 1, !.requested = fetch.offset]
    /\ UNCHANGED <<devVars, lockVars, updLockVars, queueVars, clockVars, taskVars, histVars,
                   latest_tag, logline, tagFrom, rot, setterCall, txVars, drainVars, bootVars, schedVars>>

\* a valid page of n properties reporting `total` (alfen.py 962-980)
GetAllPage(n, total) ==
    /\ fetch.pc = "inflight"
    /\ LET more == MorePages(total, fetch.offset, n) IN
       fetch' = [fetch EXCEPT !.attempt = 0, !.nulls = 0, !.total = total,
                              !.properties = @ \o PageAt(fetch.requested, n),
                              !.offset = NextOffset(@, n),
                              !.pc = IF more THEN "loop" ELSE "done",
                              !.why = IF more THEN None ELSE "complete"]
    /\ UNCHANGED <<devVars, lockVars, updLockVars, queueVars, clockVars, taskVars, histVars,
                   latest_tag, logline, tagFrom, rot, setterCall, txVars, drainVars, bootVars, schedVars>>

\* a response that is not a page: attempt = 0, break (alfen.py 962-975)
GetAllInvalid ==
    /\ fetch.pc = "inflight"
    /\ fetch' = [fetch EXCEPT !.attempt = 0, !.nulls = 0, !.pc = "done", !.why = "invalid"]
    /\ UNCHANGED <<devVars, lockVars, updLockVars, queueVars, clockVars, taskVars, histVars,
                   latest_tag, logline, tagFrom, rot, setterCall, txVars, drainVars, bootVars, schedVars>>

\* _get returned None: give up, or sleep 2 s and ask again (alfen.py 981-988)
GetAllNull ==
    /\ fetch.pc = "inflight"
    /\ IF GivesUp(fetch.attempt)
       THEN fetch' = [fetch EXCEPT !.nulls = @ + 1, !.pc = "done", !.why = "gaveup"]
       ELSE fetch' = [fetch EXCEPT !.nulls = @ + 1, !.pc = "sleep"]
    /\ UNCHANGED <<devVars, lockVars, updLockVars, queueVars, clockVars, taskVars, histVars,
                   latest_tag, logline, tagFrom, rot, setterCall, txVars, drainVars, bootVars, schedVars>>

\* asyncio.sleep(2) ends
GetAllWake ==
    /\ fetch.pc = "sleep"
    /\ fetch' = [fetch EXCEPT !.pc = "loop"]
    /\ UNCHANGED <<devVars, lockVars, updLockVars, queueVars, clockVars, taskVars, histVars,
                   latest_tag, logline, tagFrom, rot, setterCall, txVars, drainVars, bootVars, schedVars>>

\* return properties (alfen.py 1000)
GetAllReturn ==
    /\ fetch.pc = "done"
    /\ fetch' = NoFetch
    /\ UNCHANGED <<devVars, lockVars, updLockVars, queueVars, clockVars, taskVars, histVars,
                   latest_tag, logline, tagFrom, rot, setterCall, txVars, drainVars, bootVars, schedVars>>

\* ------------------------------------------------------------ log parser
\* a comparison that lets every line through
AnyLineIsNewer(line_id, taglog) == TRUE

\* if line_id > self.latest_tag[taglog_key] (alfen.py 1098)
IsNewer(line_id, taglog) == line_id > taglog

\* the start facts of the line's socket after the line (alfen.py 1084-1107)
ApplyLogLine(facts, l) ==
    IF l.parsed /\ l.event \in {"connect", "disconnect"} /\ l.hasTag
                /\ IsNewer(l.id, facts.taglog)
    THEN [taglog |-> l.id,
          tag |-> IF l.event = "connect"
                  THEN (IF l.tag # None THEN l.tag ELSE facts.tag)
                  ELSE "No Tag"]
    ELSE facts

\* the tag a line carries for the start facts of its socket, None when it has none
LineTag(l) ==
    IF l.parsed /\ l.hasTag /\ l.event = "disconnect" THEN "No Tag"
    ELSE IF l.parsed /\ l.hasTag /\ l.event = "connect" THEN l.tag
    ELSE None

\* the lines the device can send: a tag is extracted only from a message with
\* "tag:", and a line that does not parse names no event
WellFormed(l) ==
    /\ (~l.hasTag => l.tag = None)
    /\ (~l.parsed => l.event = "other" /\ ~l.hasTag)

\* the processing pass of _get_log over a buffer: `for log_line in
\* reversed(self.latest_logs)`, from the facts of every socket
RECURSIVE ProcessLogs(_, _)
ProcessLogs(facts, buffer) ==
    IF buffer = <<>> THEN facts
    ELSE LET l == buffer[Len(buffer)]
         IN ProcessLogs([facts EXCEPT ![l.socket] = ApplyLogLine(@, l)],
                        SubSeq(buffer, 1, Len(buffer) - 1))

\* one iteration of `for log_line in reversed(self.latest_logs)`
LogLine(l) ==
    /\ WellFormed(l)
    /\ logline' = [id |-> l.id, socket |-> l.socket, tag |-> LineTag(l)]
    /\ latest_tag' = [latest_tag EXCEPT ![l.socket] = ApplyLogLine(@, l)]
    /\ tagFrom' = [tagFrom EXCEPT ![l.socket] =
                      IF latest_tag'[l.socket].taglog # latest_tag[l.socket].taglog
                         /\ LineTag(l) # None
                      THEN l.id ELSE @]
    /\ UNCHANGED <<devVars, lockVars, updLockVars, queueVars, clockVars, taskVars, histVars,
                   fetch, rot, setterCall, txVars, drainVars, bootVars, schedVars>>

\* ---------------------------------------------------------------- rotation
\* a start index that ignores how many categories a cycle fetches
StartIndexIgnoresWidth(index, per_cycle, total) == index % total

\* start_idx = (category_rotation_index * categories_per_cycle) % total (alfen.py 395)
StartIndex(index, per_cycle, total) == (index * per_cycle) % total

\* category_rotation_index = (category_rotation_index + 1) % total (alfen.py 423)
NextRotationIndex(index, total) == (index + 1) % total

CeilDiv(a, b) == (a + b - 1) \div b
AllCats == 0..(rot.total - 1)

\* _fetch_dynamic_properties, up to the choice of the window (alfen.py 385-400)
\* with no regular category the function returns at once and changes nothing
RotateStart ==
    /\ rot.pc = "idle" /\ rot.total > 0
    /\ rot' = [rot EXCEPT !.pc = "fetch", !.i = 0, !.window = {},
                          !.total_categories = rot.total, !.to_fetch = rot.per_cycle,
                          !.start_idx = StartIndex(rot.index, rot.per_cycle, rot.total)]
    /\ UNCHANGED <<devVars, lockVars, updLockVars, queueVars, clockVars, taskVars, histVars,
                   fetch, latest_tag, logline, tagFrom, setterCall, txVars, drainVars, bootVars, schedVars>>

\* the i-th category of the window is fetched (alfen.py 397-420)
RotateFetch ==
    /\ rot.pc = "fetch" /\ rot.i < rot.to_fetch
    /\ LET cat == (rot.start_idx + rot.i) % rot.total_categories
           done == rot.seen = AllCats
       IN rot' = [rot EXCEPT !.i = @ + 1, !.window = @ \cup {cat},
                             !.early = @ \/ (cat \in rot.seen /\ ~done),
                             !.seen = IF done THEN {cat} ELSE @ \cup {cat}]
    /\ UNCHANGED <<devVars, lockVars, updLockVars, queueVars, clockVars, taskVars, histVars,
                   fetch, latest_tag, logline, tagFrom, setterCall, txVars, drainVars, bootVars, schedVars>>

\* the window is fetched: the index moves on and the cycle completes (alfen.py 423)
RotateEnd ==
    /\ rot.pc = "fetch" /\ rot.i = rot.to_fetch
    /\ LET limit == CeilDiv(rot.total, rot.per_cycle) IN
       rot' = [rot EXCEPT !.pc = "idle", !.i = 0, !.window = {},
                          !.index = NextRotationIndex(@, rot.total_categories),
                          !.age = [c \in AllCats |->
                                     IF c \in rot.window THEN 0
                                     ELSE IF rot.age[c] < limit THEN rot.age[c] + 1
                                     ELSE limit]]
    /\ UNCHANGED <<devVars, lockVars, updLockVars, queueVars, clockVars, taskVars, histVars,
                   fetch, latest_tag, logline, tagFrom, setterCall, txVars, drainVars, bootVars, schedVars>>

\* ----------------------------------------------------------- specification
\* What every specification shares: the code of login, of the request executor and
\* of the update cycle, for the tasks that were started.
Engine ==
    \/ \E t \in Tasks : LoginEnter(t)
    \/ \E t \in Tasks, r \in Responses : LoginResponse(t, r)
    \/ \E t \in Tasks : LoginReturn(t)
    \/ \E t \in Tasks : RequestEnter(t)
    \/ \E t \in Tasks : RequestLock(t)
    \/ \E t \in Tasks, r \in Responses : RequestResponse(t, r)
    \/ \E t \in Tasks : RequestReturn(t)

Cycle ==
    \/ \E t \in Tasks : UpdateEnter(t)
    \/ \E t \in Tasks : ProactiveLogin(t)
    \/ \E t \in Tasks : DrainSnapshot(t)
    \/ \E t \in Tasks : DrainNext(t)
    \/ \E t \in Tasks : DrainRemove(t)
    \/ \E t \in Tasks : FetchNext(t)
    \/ \E t \in Tasks : FetchResult(t)
    \/ \E t \in Tasks : Wake(t)
    \/ \E t \in Tasks : UpdateReturn(t)
    \/ \E t \in Tasks : CycleTimeout(t)
    \/ \E t \in Tasks : ProactiveLoginTimeout(t)

Contention ==
    \/ \E t \in Tasks : LoginResume(t)
    \/ \E t \in Tasks : RequestResume(t)

OneUpdater == {u \in Updaters : \A w \in Updaters : u <= w}

\* The write path: one refresh at a time, entities calling set_value.
Next ==
    \/ Engine
    \/ Cycle
    \/ \E t \in Tasks : DrainResult(t)
    \/ \E t \in OneUpdater : PeriodicTrigger(t)
    \/ \E t \in Callers, i \in Ids, v \in Vals : CallSetValue(t, i, v, OneUpdater)

Spec == Init /\ [][Next]_vars

\* The session: one refresh at a time, callers sending commands and calling login().
NextAuth ==
    \/ Engine
    \/ Cycle
    \/ Contention
    \/ \E t \in OneUpdater : PeriodicTrigger(t)
    \/ \E t \in Callers : CallLogin(t)
    \/ \E t \in Callers, k \in {"get", "post"} : CallRequest(t, k)

SpecAuth == Init /\ [][NextAuth]_vars

\* The session with every kind of transport failure.
NextTransport ==
    \/ NextAuth
    \/ \E t \in Tasks, r \in TransportFailures : RequestResponse(t, r)

SpecTransport == Init /\ [][NextTransport]_vars

\* init() beside a refresh.
NextInit ==
    \/ Engine
    \/ Cycle
    \/ Contention
    \/ \E t \in OneUpdater : PeriodicTrigger(t)
    \/ \E t \in Callers : CallInit(t)
    \/ \E t \in Tasks : InitAfterLogin(t)
    \/ \E t \in Tasks : GetInfoSend(t)
    \/ \E t \in Tasks : GetInfoResponse(t)

SpecInit == Init /\ [][NextInit]_vars

\* Concurrent refreshes, and callers logging out and in.
NextCycle ==
    \/ Engine
    \/ Cycle
    \/ Contention
    \/ \E t \in Tasks : UpdateResume(t)
    \/ \E t \in Updaters : PeriodicTrigger(t)
    \/ \E t \in Callers : CallLogin(t)
    \/ \E t \in Callers : CallLogout(t)

SpecCycle == Init /\ [][NextCycle]_vars

\* The login rate limiter over time.
NextRate ==
    \/ Engine
    \/ Cycle
    \/ Contention
    \/ \E t \in OneUpdater : PeriodicTrigger(t)
    \/ \E t \in Callers : CallLogin(t)
    \/ \E t \in Callers, k \in {"get"} : CallRequest(t, k)
    \/ \E d \in TickSteps : Tick(d)

SpecRate == Init /\ [][NextRate]_vars

\* The write path after the properties were fetched: id 1 is in self.properties,
\* id 2 is not; everything else as in Init.
InitDrain ==
    /\ logged_in = FALSE
    /\ keep_logout = FALSE
    /\ connector_closed = FALSE
    /\ login_attempts = <<>>
    /\ lock_holder = NoTask /\ lock_waiters = <<>>
    /\ updating_holder = NoTask /\ updating_waiters = <<>>
    /\ update_values = <<>>
    /\ cellval = [c \in Cells |-> 0]
    /\ now = 0 /\ ticks = 0
    /\ running = NoTask
    /\ pc = [t \in Tasks |-> "idle"]
    /\ op = [t \in Tasks |-> None]
    /\ main = [t \in Tasks |-> NoMain]
    /\ cause = [t \in Tasks |-> None]
    /\ res = [t \in Tasks |-> None]
    /\ upd = [t \in Tasks |-> NoUpd]
    /\ unsent = [i \in Ids |-> FALSE]
    /\ lost = {}
    /\ call = [t \in Tasks |-> NoCall]
    /\ sendCtx = [t \in Tasks |-> NoCtx]
    /\ logoutActive = FALSE
    /\ updInfo = [t \in Tasks |-> NoUpdInfo]
    /\ loginInfo = [t \in Tasks |-> NoLoginInfo]
    /\ lastSet = [i \in Ids |-> NoSet]
    /\ attemptLog = <<>>
    /\ loginSent = <<>>
    /\ fetch = NoFetch
    /\ latest_tag = [s \in Sockets |-> NoTagFacts]
    /\ logline = NoLine
    /\ tagFrom = [s \in Sockets |-> 0]
    /\ rot = RotInit(1, 1)
    /\ setterCall = NoSetterCall
    /\ latest_tag_tx = NoTxFacts
    /\ transaction = NoTransaction
    /\ txline = <<>>
    /\ properties = [i \in Ids |-> IF i = 1 THEN [cached |-> TRUE, value |-> 0] ELSE NoProp]
    /\ failedWrites = {}
    /\ get_static_properties = TRUE /\ category_options = DefaultOptions
    /\ static_properties = {} /\ boot = NoBoot /\ bootOwed = TRUE
    /\ log_counter = 0 /\ transaction_counter = 0 /\ sched = NoSched

SpecDrain == InitDrain /\ [][Next]_vars

\* One category fetched page by page.
NextFetch ==
    \/ GetAllStart
    \/ GetAllRequest
    \/ \E n \in 0..MaxPage, total \in 0..MaxTotal : GetAllPage(n, total)
    \/ GetAllInvalid
    \/ GetAllNull
    \/ GetAllWake
    \/ GetAllReturn

SpecFetch == Init /\ [][NextFetch]_vars

\* The same, with the fetch that was started always taking its next step: the event
\* loop runs the coroutine, the sleep ends, and _get returns with one of its
\* results (the device chooses which).
FetchStep ==
    \/ GetAllRequest
    \/ \E n \in 0..MaxPage, total \in 0..MaxTotal : GetAllPage(n, total)
    \/ GetAllInvalid
    \/ GetAllNull
    \/ GetAllWake
    \/ GetAllReturn

SpecFetchLive == Init /\ [][NextFetch]_vars /\ WF_vars(FetchStep)

\* Log lines applied in any order.
NextLog == \E l \in LogLines : LogLine(l)

SpecLog == Init /\ [][NextLog]_vars

\* Completed cycles over a fixed allowlist, for every size and width of the bounds.
InitRotate ==
    /\ \E total \in 1..MaxCats, per_cycle \in 1..MaxPerCycle : rot = RotInit(total, per_cycle)
    /\ logged_in = FALSE /\ keep_logout = FALSE /\ connector_closed = FALSE
    /\ login_attempts = <<>>
    /\ lock_holder = NoTask /\ lock_waiters = <<>>
    /\ updating_holder = NoTask /\ updating_waiters = <<>>
    /\ update_values = <<>> /\ cellval = [c \in Cells |-> 0]
    /\ now = 0 /\ ticks = 0
    /\ running = NoTask
    /\ pc = [t \in Tasks |-> "idle"] /\ op = [t \in Tasks |-> None]
    /\ main = [t \in Tasks |-> NoMain] /\ cause = [t \in Tasks |-> None]
    /\ res = [t \in Tasks |-> None] /\ upd = [t \in Tasks |-> NoUpd]
    /\ unsent = [i \in Ids |-> FALSE] /\ lost = {}
    /\ call = [t \in Tasks |-> NoCall] /\ sendCtx = [t \in Tasks |-> NoCtx]
    /\ logoutActive = FALSE
    /\ updInfo = [t \in Tasks |-> NoUpdInfo] /\ loginInfo = [t \in Tasks |-> NoLoginInfo]
    /\ lastSet = [i \in Ids |-> NoSet]
    /\ attemptLog = <<>> /\ loginSent = <<>>
    /\ fetch = NoFetch
    /\ latest_tag = [s \in Sockets |-> NoTagFacts] /\ logline = NoLine
    /\ tagFrom = [s \in Sockets |-> 0]
    /\ setterCall = NoSetterCall
    /\ latest_tag_tx = NoTxFacts
    /\ transaction = NoTransaction
    /\ txline = <<>>
    /\ properties = [i \in Ids |-> NoProp]
    /\ failedWrites = {}
    /\ get_static_properties = TRUE /\ category_options = DefaultOptions
    /\ static_properties = {} /\ boot = NoBoot /\ bootOwed = TRUE
    /\ log_counter = 0 /\ transaction_counter = 0 /\ sched = NoSched

NextRotate == RotateStart \/ RotateFetch \/ RotateEnd

SpecRotate == InitRotate /\ [][NextRotate]_vars

\* ------------------------------------------------------ transaction parser
\* the date, time and meter reading of the lines the device sends
TxSamples ==
    { [date |-> "2024-01-15", time |-> "11:00:00", kWh |-> "20.3"],
      [date |-> "2024-01-16", time |-> "12:30:00", kWh |-> "21.5"] }

\* "<id>_mv socket <n>, <date> <time> <kWh>", split at the spaces
MvLines ==
    { <<"125_mv", "socket", n, s.date, s.time, s.kWh>> : n \in {"1,", "2,"}, s \in TxSamples }

\* start and stop lines with the socket, the date and the reading at the places
\* the parser reads them from: splitline[3..7]
TxStartLines ==
    { <<"123_txstart:", "id", "7", "socket", n, s.date, s.time, s.kWh \o "kWh", "tag">> :
          n \in {"1,", "2,"}, s \in TxSamples }

TxStopLines ==
    { <<"124_txstop:", "id", "7", "socket", n, s.date, s.time, s.kWh \o "kWh", "tag">> :
          n \in {"1,", "2,"}, s \in TxSamples }

\* a meter value of socket 1 with a smaller id than the other lines
OlderMvLine == <<"122_mv", "socket", "1,", "2024-01-16", "12:30:00", "21.5">>

\* a line that advances the offset, the marker of the end, an empty line and a
\* line with none of the markers
DtoLine == <<"99999_dto">>
EmptyMarker == <<"0_Empty">>
EmptyLine == <<"">>
UnknownLine == <<"unknown">>

\* lines that stop before the fields the parser reads
ShortLines == {<<"123_txstart:", "id">>, <<"125_mv", "socket">>}

\* lines whose id prefix is no number
BadIdLines == {<<"x_mv", "socket", "1,", "2024-01-15", "11:00:00", "20.3">>, <<"x_dto">>}

\* the well-formed lines that carry facts
TxLines == MvLines \cup TxStartLines \cup TxStopLines

\* the lines of the responses the loop of _get_transaction is run on
LoopLines ==
    {<<"125_mv", "socket", "1,", "2024-01-15", "11:00:00", "20.3">>, OlderMvLine,
     DtoLine, EmptyMarker, EmptyLine, UnknownLine} \cup ShortLines \cup BadIdLines

\* response.splitlines() of the responses made of these lines; the empty sequence
\* is the empty response and the response None
LoopResponses == UNION { [1..n -> LoopLines] : n \in 0..MaxLines }

\* the marker a token of these lines holds as a substring
Marker(token) ==
    CASE token = "123_txstart:" -> "txstart"
      [] token = "124_txstop:" -> "txstop"
      [] token = "125_mv" -> "mv"
      [] token = "122_mv" -> "mv"
      [] token = "99999_dto" -> "dto"
      [] token = "x_mv" -> "mv"
      [] token = "x_dto" -> "dto"
      [] token = "0_Empty" -> "0_Empty"
      [] OTHER -> None

\* `word in line`
Contains(splitline, word) == \E i \in 1..Len(splitline) : Marker(splitline[i]) = word

\* token.split(",", 2)[0]
StripComma(token) ==
    CASE token = "1," -> "1"
      [] token = "2," -> "2"
      [] OTHER -> token

\* token.split("kWh", 2)[0]
StripKWh(token) ==
    CASE token = "20.3kWh" -> "20.3"
      [] token = "21.5kWh" -> "21.5"
      [] OTHER -> token

\* splitline[0].split("_", 2)[0], read as an integer
Tid(splitline) ==
    CASE splitline[1] = "123_txstart:" -> 123
      [] splitline[1] = "124_txstop:" -> 124
      [] splitline[1] = "125_mv" -> 125
      [] splitline[1] = "122_mv" -> 122
      [] splitline[1] = "99999_dto" -> 99999

\* int() of that prefix does not raise ValueError
Numeric(splitline) == splitline[1] \notin {"x_mv", "x_dto"}

\* the branch of the line reads a field the line does not have: IndexError
TooShort(splitline) ==
    \/ (Contains(splitline, "txstart") \/ Contains(splitline, "txstop")) /\ Len(splitline) < 8
    \/ ~Contains(splitline, "txstart") /\ ~Contains(splitline, "txstop")
           /\ Contains(splitline, "mv") /\ Len(splitline) < 6

\* the branch `"txstart" in line`; splitline[k] of the code is splitline[k + 1] here
ApplyTxStart(facts, splitline) ==
    LET socket == splitline[4] \o " " \o StripComma(splitline[5])
        date == splitline[6] \o " " \o splitline[7]
        kWh == StripKWh(splitline[8])
    IN [facts EXCEPT ![<<socket, "start", "date">>] = date,
                     ![<<socket, "start", "kWh">>] = kWh]

\* the branch `"txstop" in line`: the stop facts, then the start facts of the
\* socket, if there are any, copied to last_start
ApplyTxStop(facts, splitline) ==
    LET socket == splitline[4] \o " " \o StripComma(splitline[5])
        date == splitline[6] \o " " \o splitline[7]
        kWh == StripKWh(splitline[8])
        stopped == [facts EXCEPT ![<<socket, "stop", "date">>] = date,
                                 ![<<socket, "stop", "kWh">>] = kWh]
        withKWh == IF stopped[<<socket, "start", "kWh">>] # None
                   THEN [stopped EXCEPT ![<<socket, "last_start", "kWh">>] =
                                            stopped[<<socket, "start", "kWh">>]]
                   ELSE stopped
    IN IF withKWh[<<socket, "start", "date">>] # None
       THEN [withKWh EXCEPT ![<<socket, "last_start", "date">>] =
                                withKWh[<<socket, "start", "date">>]]
       ELSE withKWh

\* a meter-value branch that files the reading under the start facts
ApplyMvAsStart(facts, splitline) ==
    LET socket == splitline[2] \o " " \o StripComma(splitline[3])
    IN [facts EXCEPT ![<<socket, "mv", "date">>] = splitline[4] \o " " \o splitline[5],
                     ![<<socket, "start", "kWh">>] = splitline[6]]

\* the branch `"mv" in line`
ApplyMv(facts, splitline) ==
    LET socket == splitline[2] \o " " \o StripComma(splitline[3])
        date == splitline[4] \o " " \o splitline[5]
        kWh == splitline[6]
    IN [facts EXCEPT ![<<socket, "mv", "date">>] = date,
                     ![<<socket, "mv", "kWh">>] = kWh]

\* the facts after one line of the response
ApplyTxLine(facts, splitline) ==
    IF Contains(splitline, "txstart") THEN ApplyTxStart(facts, splitline)
    ELSE IF Contains(splitline, "txstop") THEN ApplyTxStop(facts, splitline)
    ELSE IF Contains(splitline, "mv") THEN ApplyMv(facts, splitline)
    ELSE facts

\* a start, stop or meter-value line ends with offset = int(tid_str): the same
\* offset again counts, a new one is stored and restarts the count
TxBookkeeping(tr, splitline) ==
    IF Contains(splitline, "txstart") \/ Contains(splitline, "txstop") \/ Contains(splitline, "mv")
    THEN IF tr.transaction_offset = Tid(splitline)
         THEN [tr EXCEPT !.offset = Tid(splitline), !.counter = tr.counter + 1]
         ELSE [tr EXCEPT !.offset = Tid(splitline), !.transaction_offset = Tid(splitline),
                         !.counter = 0]
    ELSE tr

\* history: one more line with the numeric id tid; a line without one ends the row
Seen(seen, tid) ==
    IF seen.id = tid THEN [seen EXCEPT !.times = seen.times + 1] ELSE [id |-> tid, times |-> 1]

NotSeen == [id |-> 0, times |-> 0]

\* the for loop is left, by break or after its last line: the while loop tests
\* transactionLoop
AfterFor(tr) ==
    [tr EXCEPT !.lines = <<>>, !.pc = IF tr.transactionLoop THEN "request" ELSE "done"]

\* `continue`, or the end of the body: the next line, if there is one
NextLine(tr) ==
    IF Tail(tr.lines) = <<>> THEN AfterFor(tr) ELSE [tr EXCEPT !.lines = Tail(tr.lines)]

\* the branch `"dto" in line`
ApplyDto(tr, splitline) ==
    IF Tid(splitline) > tr.offset
    THEN [tr EXCEPT !.offset = IF Tid(splitline) < OFFSET_CAP THEN Tid(splitline) ELSE OFFSET_CAP]
    ELSE [tr EXCEPT !.offset = IF tr.offset + 1 < OFFSET_CAP THEN tr.offset + 1 ELSE OFFSET_CAP]

\* the else branch: an unknown line
ApplyUnknown(tr) ==
    [tr EXCEPT !.offset = tr.offset + 1,
               !.unknownLine = tr.unknownLine + 1,
               !.transactionLoop = IF tr.unknownLine + 1 > 2 THEN FALSE ELSE tr.transactionLoop]

\* history: the ids of the lines that wrote the facts last, after the line l
Applied(applied, facts, l) ==
    IF l = EmptyLine \/ TooShort(l) \/ ~Numeric(l) THEN applied
    ELSE IF Contains(l, "txstart")
    THEN [applied EXCEPT ![<<l[4] \o " " \o StripComma(l[5]), "start">>] = Tid(l)]
    ELSE IF Contains(l, "txstop")
    THEN LET socket == l[4] \o " " \o StripComma(l[5])
         IN [applied EXCEPT ![<<socket, "stop">>] = Tid(l),
                            ![<<socket, "last_start">>] =
                                IF facts[<<socket, "start", "kWh">>] # None
                                   \/ facts[<<socket, "start", "date">>] # None
                                THEN Tid(l) ELSE @]
    ELSE IF Contains(l, "mv")
    THEN [applied EXCEPT ![<<l[2] \o " " \o StripComma(l[3]), "mv">>] = Tid(l)]
    ELSE applied

\* the line takes the else branch of the body
Unknown(l) ==
    /\ l # EmptyLine
    /\ \A word \in {"txstart", "txstop", "mv", "dto", "0_Empty"} : ~Contains(l, word)

\* the body of `for line in lines` on the line l, the first of tr.lines
TxBody(tr, l) ==
    IF l = EmptyLine THEN AfterFor([tr EXCEPT !.transactionLoop = FALSE])
    ELSE IF Contains(l, "txstart") \/ Contains(l, "txstop") \/ Contains(l, "mv")
    THEN IF TooShort(l) THEN AfterFor(tr)                          \* except IndexError: break
         ELSE IF ~Numeric(l) THEN NextLine([tr EXCEPT !.seen = NotSeen])  \* except ValueError: continue
         ELSE LET tr1 == [TxBookkeeping(tr, l) EXCEPT !.seen = Seen(tr.seen, Tid(l))]
              IN IF tr1.counter = 2 THEN AfterFor([tr1 EXCEPT !.transactionLoop = FALSE])
                 ELSE IF l = tr.last THEN AfterFor(tr1)
                 ELSE NextLine(tr1)
    ELSE IF Contains(l, "dto")
    THEN IF ~Numeric(l) THEN [tr EXCEPT !.pc = "raised", !.lines = <<>>]  \* ValueError, not caught
         ELSE NextLine([ApplyDto(tr, l) EXCEPT !.seen = NotSeen])
    ELSE IF Contains(l, "0_Empty") THEN AfterFor([tr EXCEPT !.transactionLoop = FALSE])
    ELSE NextLine([ApplyUnknown(tr) EXCEPT !.seen = NotSeen])

\* _get_transaction is called: its locals
TxStart ==
    /\ transaction.pc = "idle"
    /\ transaction' = [transaction EXCEPT !.pc = "request",
                                          !.offset = transaction.transaction_offset,
                                          !.counter = 0, !.unknownLine = 0,
                                          !.transactionLoop = TRUE, !.seen = NotSeen,
                                          !.unknownRow = 0]
    /\ UNCHANGED <<devVars, lockVars, updLockVars, queueVars, clockVars, taskVars, histVars,
                   fetch, latest_tag, logline, tagFrom, rot, setterCall, latest_tag_tx, txline,
                   drainVars, bootVars, schedVars>>

\* the top of `while transactionLoop`: the offset is capped and the request sent
TxRequest ==
    /\ transaction.pc = "request"
    /\ transaction' = [transaction EXCEPT
                           !.pc = "inflight",
                           !.offset = IF transaction.offset < OFFSET_CAP
                                      THEN transaction.offset ELSE OFFSET_CAP]
    /\ UNCHANGED <<devVars, lockVars, updLockVars, queueVars, clockVars, taskVars, histVars,
                   fetch, latest_tag, logline, tagFrom, rot, setterCall, latest_tag_tx, txline,
                   drainVars, bootVars, schedVars>>

\* _get returns: no lines end the loop, else the for loop starts
TxResponse(lines) ==
    /\ transaction.pc = "inflight"
    /\ transaction' = IF lines = <<>>
                      THEN [transaction EXCEPT !.pc = "done", !.transactionLoop = FALSE]
                      ELSE [transaction EXCEPT !.pc = "lines", !.lines = lines,
                                               !.last = lines[Len(lines)]]
    /\ UNCHANGED <<devVars, lockVars, updLockVars, queueVars, clockVars, taskVars, histVars,
                   fetch, latest_tag, logline, tagFrom, rot, setterCall, latest_tag_tx, txline,
                   drainVars, bootVars, schedVars>>

\* one pass of `for line in lines` of _get_transaction
TxLine ==
    /\ transaction.pc = "lines"
    /\ LET l == Head(transaction.lines)
       IN /\ latest_tag_tx' = IF l = EmptyLine \/ TooShort(l)
                              THEN latest_tag_tx ELSE ApplyTxLine(latest_tag_tx, l)
          /\ transaction' = [TxBody(transaction, l) EXCEPT
                                 !.unknownRow = IF Unknown(l) THEN transaction.unknownRow + 1 ELSE 0,
                                 !.applied = Applied(transaction.applied, latest_tag_tx, l)]
          /\ txline' = l
    /\ UNCHANGED <<devVars, lockVars, updLockVars, queueVars, clockVars, taskVars, histVars,
                   fetch, latest_tag, logline, tagFrom, rot, setterCall, drainVars, bootVars, schedVars>>

\* _get_transaction returns, or the ValueError leaves it
TxReturn ==
    /\ transaction.pc \in {"done", "raised"}
    /\ transaction' = [transaction EXCEPT !.pc = "idle"]
    /\ UNCHANGED <<devVars, lockVars, updLockVars, queueVars, clockVars, taskVars, histVars,
                   fetch, latest_tag, logline, tagFrom, rot, setterCall, latest_tag_tx, txline,
                   drainVars, bootVars, schedVars>>

\* ------------------------------------------------------------- static stage
\* _fetch_static_properties: the categories it asks for
StaticCats(options) ==
    LET static_cats == SelectSeq(BootCategories, LAMBDA cat : cat \notin options)
    IN IF \A i \in 1..Len(static_cats) : static_cats[i] # "generic"
       THEN <<"generic">> \o static_cats
       ELSE static_cats

\* async_update takes the cycle lock; the login and the drain follow
BootCycleStart ==
    /\ boot.pc = "idle"
    /\ boot' = [boot EXCEPT !.pc = "early", !.ran = FALSE]
    /\ UNCHANGED <<devVars, lockVars, updLockVars, queueVars, clockVars, taskVars, histVars,
                   stageData, schedVars, get_static_properties, category_options, static_properties,
                   bootOwed>>

\* if self.get_static_properties: the first static category is requested
BootStage ==
    /\ boot.pc = "early"
    /\ IF get_static_properties
       THEN /\ boot' = [pc |-> "static", todo |-> StaticCats(category_options), fetched |-> {},
                        ran |-> FALSE]
            /\ bootOwed' = FALSE
       ELSE /\ boot' = [boot EXCEPT !.pc = "rest"]
            /\ UNCHANGED bootOwed
    /\ UNCHANGED <<devVars, lockVars, updLockVars, queueVars, clockVars, taskVars, histVars,
                   stageData, schedVars, get_static_properties, category_options, static_properties>>

\* a static category arrives: the next one is requested, or the stage ends with
\* self.static_properties = ...; self.get_static_properties = False
BootFetchReturn ==
    /\ boot.pc = "static"
    /\ LET fetched == boot.fetched \cup {Head(boot.todo)} IN
       IF Len(boot.todo) > 1
       THEN /\ boot' = [boot EXCEPT !.todo = Tail(@), !.fetched = fetched]
            /\ UNCHANGED <<get_static_properties, static_properties>>
       ELSE /\ boot' = [pc |-> "rest", todo |-> <<>>, fetched |-> {}, ran |-> TRUE]
            /\ static_properties' = fetched
            /\ get_static_properties' = FALSE
    /\ UNCHANGED <<devVars, lockVars, updLockVars, queueVars, clockVars, taskVars, histVars,
                   stageData, schedVars, category_options, bootOwed>>

\* the categories of the options that _fetch_dynamic_properties rotates over
RegularCategories(options) == options \ {"logs", "transactions"}

\* the category of a property id: the device files id 1 under generic, id 2 under
\* states and any other id under meter
CatOf(i) == IF i = 1 THEN "generic" ELSE IF i = 2 THEN "states" ELSE "meter"

\* the properties of the categories cats are stored in the dict props
StoreCats(props, cats) ==
    [i \in Ids |-> IF CatOf(i) \in cats THEN [props[i] EXCEPT !.cached = TRUE] ELSE props[i]]

\* _build_properties_dict: the static properties initialise an empty dict; the
\* dynamic properties are stored in every case
BuildPropertiesDict(props, static, dynamic) ==
    IF \A i \in Ids : ~props[i].cached
    THEN StoreCats(StoreCats(props, static), dynamic)
    ELSE StoreCats(props, dynamic)

\* the drain of the cycle had a write confirmed: _fetch_post_update_categories
\* stores the properties of the states category, if it is a refresh category
BootConfirmFetch ==
    /\ boot.pc = "early" /\ "states" \in category_options
    /\ properties' = StoreCats(properties, {"states"})
    /\ UNCHANGED <<devVars, lockVars, updLockVars, queueVars, clockVars, taskVars, histVars,
                   fetch, latest_tag, logline, tagFrom, rot, setterCall, txVars, failedWrites,
                   schedVars, bootVars>>

\* the dynamic stage fetched the categories dynamic; _build_properties_dict; the log
\* and transaction stage ends; the cycle returns
BootCycleEnd(dynamic) ==
    /\ boot.pc = "rest"
    /\ dynamic \subseteq RegularCategories(category_options)
    /\ properties' = BuildPropertiesDict(properties, static_properties, dynamic)
    /\ boot' = [NoBoot EXCEPT !.ran = boot.ran]
    /\ UNCHANGED <<devVars, lockVars, updLockVars, queueVars, clockVars, taskVars, histVars,
                   fetch, latest_tag, logline, tagFrom, rot, setterCall, txVars, failedWrites,
                   schedVars, get_static_properties, category_options, static_properties,
                   bootOwed>>

\* the coordinator's timeout cancels the cycle where it waits
BootTimeout ==
    /\ boot.pc \in {"early", "static", "rest"}
    /\ boot' = NoBoot
    /\ UNCHANGED <<devVars, lockVars, updLockVars, queueVars, clockVars, taskVars, histVars,
                   stageData, schedVars, get_static_properties, category_options, static_properties,
                   bootOwed>>

\* the listener leaves category_rotation_index and the locals of a running
\* _fetch_dynamic_properties alone; the history starts again with a new rotation
RotOptions(r, total, per_cycle) ==
    IF total = r.total /\ per_cycle = r.per_cycle THEN r
    ELSE [r EXCEPT !.total = total, !.per_cycle = per_cycle,
                   !.age = [c \in 0..(total - 1) |-> 0], !.seen = {}, !.early = FALSE]

\* options_update_listener: it runs between two steps of the cycle, or with no
\* cycle running
OptionsUpdate(options, per_cycle) ==
    /\ get_static_properties' = TRUE
    /\ category_options' = options
    /\ rot' = RotOptions(rot, Cardinality(RegularCategories(options)), per_cycle)
    /\ bootOwed' = TRUE
    /\ UNCHANGED <<devVars, lockVars, updLockVars, queueVars, clockVars, taskVars, histVars,
                   fetch, latest_tag, logline, tagFrom, setterCall, txVars, drainVars,
                   schedVars, static_properties, boot>>

\* The static stage of the cycles, and the options changed beside them.
NextBoot ==
    \/ BootCycleStart \/ BootConfirmFetch \/ BootStage \/ BootFetchReturn \/ BootTimeout
    \/ \E dynamic \in SUBSET {"generic", "states", "meter"} : BootCycleEnd(dynamic)
    \/ \E options \in SUBSET {"generic", "states", "meter"} :
          OptionsUpdate(options, rot.per_cycle)

SpecBoot == Init /\ [][NextBoot]_vars

\* ------------------------------------------------ log and transaction stage
\* a counter that advances by two
NextCounterSkips(counter, every) == (counter + 2) % every

\* self.log_counter = (self.log_counter + 1) % 20, and the same with 60
NextCounter(counter, every) == (counter + 1) % every

\* if self.log_counter == 0
FetchDue(counter) == counter = 0

\* the history count: one more cycle, or none since the fetch that starts now
SinceAfter(since, every, fetches) ==
    IF fetches THEN 0 ELSE IF since < 2 * every THEN since + 1 ELSE since

\* the cycle reaches _fetch_logs_and_transactions: the log test, and the log fetch
\* if it is due
SchedLog ==
    /\ sched.pc = "idle"
    /\ IF "logs" \in category_options
       THEN LET c == NextCounter(log_counter, LOG_EVERY) IN
            /\ log_counter' = c
            /\ sched' = [sched EXCEPT !.pc = IF FetchDue(c) THEN "log" ELSE "tx",
                                      !.logSince = SinceAfter(@, LOG_EVERY, FetchDue(c))]
       ELSE /\ sched' = [sched EXCEPT !.pc = "tx"]
            /\ UNCHANGED log_counter
    /\ UNCHANGED <<devVars, lockVars, updLockVars, queueVars, clockVars, taskVars, histVars,
                   stageData, bootVars, transaction_counter>>

\* await self._get_log() returns
SchedLogReturn ==
    /\ sched.pc = "log"
    /\ sched' = [sched EXCEPT !.pc = "tx"]
    /\ UNCHANGED <<devVars, lockVars, updLockVars, queueVars, clockVars, taskVars, histVars,
                   stageData, bootVars, log_counter, transaction_counter>>

\* the transaction test, and the transaction fetch if it is due; else the cycle ends
SchedTx ==
    /\ sched.pc = "tx"
    /\ IF "transactions" \in category_options
       THEN LET c == NextCounter(transaction_counter, TRANSACTION_EVERY) IN
            /\ transaction_counter' = c
            /\ sched' = [sched EXCEPT !.pc = IF FetchDue(c) THEN "txfetch" ELSE "idle",
                                      !.txSince = SinceAfter(@, TRANSACTION_EVERY, FetchDue(c))]
       ELSE /\ sched' = [sched EXCEPT !.pc = "idle"]
            /\ UNCHANGED transaction_counter
    /\ UNCHANGED <<devVars, lockVars, updLockVars, queueVars, clockVars, taskVars, histVars,
                   stageData, bootVars, log_counter>>

\* await self._get_transaction() returns; the cycle ends
SchedTxReturn ==
    /\ sched.pc = "txfetch"
    /\ sched' = [sched EXCEPT !.pc = "idle"]
    /\ UNCHANGED <<devVars, lockVars, updLockVars, queueVars, clockVars, taskVars, histVars,
                   stageData, bootVars, log_counter, transaction_counter>>

\* the coordinator's timeout cancels the cycle in a fetch of this stage
SchedTimeout ==
    /\ sched.pc \in {"log", "txfetch"}
    /\ sched' = [sched EXCEPT !.pc = "idle"]
    /\ UNCHANGED <<devVars, lockVars, updLockVars, queueVars, clockVars, taskVars, histVars,
                   stageData, bootVars, log_counter, transaction_counter>>

\* The log and transaction stage of the cycles; the options enable and disable the
\* two categories between the cycles and while a fetch runs.
NextSched ==
    \/ SchedLog \/ SchedLogReturn \/ SchedTx \/ SchedTxReturn \/ SchedTimeout
    \/ \E options \in SUBSET {"logs", "transactions"} :
          OptionsUpdate(options, rot.per_cycle)

SpecSched == Init /\ [][NextSched]_vars

\* The rotation of a new entry, with options updates that change the allowlist
\* and the number of categories per cycle.
NextRotateOptions ==
    \/ NextRotate
    \/ \E options \in SUBSET {"generic", "states", "meter", "logs"},
          per_cycle \in 1..MaxPerCycle : OptionsUpdate(options, per_cycle)

SpecRotateOptions == Init /\ [][NextRotateOptions]_vars

\* The typed setters called with inputs in and out of range.
NextSetters ==
    \E t \in Callers, setter \in Setters, x \in UNION {SetterInputs(f) : f \in Setters} :
        CallSetter(t, setter, x, Updaters)

SpecSetters == Init /\ [][NextSetters]_vars

\* The transaction parser on the lines of a response.
NextTx ==
    \/ TxStart
    \/ TxRequest
    \/ \E l \in TxLines : TxResponse(<<l>>)
    \/ TxLine
    \/ TxReturn

SpecTx == Init /\ [][NextTx]_vars

\* The loop of _get_transaction on responses of several lines, well-formed or not.
NextTxLoop ==
    \/ TxStart
    \/ TxRequest
    \/ \E lines \in LoopResponses : TxResponse(lines)
    \/ TxLine
    \/ TxReturn

SpecTxLoop == Init /\ [][NextTxLoop]_vars

\* The same, with the call that was started always taking its next step: the event
\* loop runs the coroutine and _get returns with one of its results.
TxStep ==
    \/ TxRequest
    \/ \E lines \in LoopResponses : TxResponse(lines)
    \/ TxLine
    \/ TxReturn

SpecTxLoopLive == Init /\ [][NextTxLoop]_vars /\ WF_vars(TxStep)

\* ================================================================= claims
DrainActive == \E t \in Tasks : upd[t].stage = "drain"
QueueValue(id) == cellval[CellOf(update_values, id)]
NoDuplicateIds(q) == \A i, j \in 1..Len(q) : q[i].api_param = q[j].api_param => i = j

\* C1: a queued value is never removed from the queue without having been sent to
\* the device; in particular a value v2 set while the drain is sending an earlier
\* value v1 of the same id is still queued when the drain has removed its keys.
C1_NoQueuedValueDropped == lost = {}

\* C10: set_value calls with no drain in between leave at most one entry per
\* property id in the queue, holding the value of the most recent call for the id.
C10_QueueCoalesced ==
    /\ NoDuplicateIds(update_values)
    /\ ~DrainActive =>
           \A i \in Ids : lastSet[i].val # 0 =>
               InQueue(update_values, i) /\ QueueValue(i) = lastSet[i].val

\* C10, its case: a second set_value replaced a different queued value of the id
C10_Witness ==
    /\ ~DrainActive
    /\ \E i \in Ids : lastSet[i].over /\ InQueue(update_values, i)
                      /\ QueueValue(i) = lastSet[i].val

IsGetOrPost(t) == main[t].kind \in {"get", "post"}
LoginPcs == {"l_enter", "l_wait", "l_inflight", "l_ret"}
RequestPcs == {"r_enter", "r_lock", "r_wait", "r_inflight", "r_ret"}
\* the task is inside a call of _get / _post / _update_value
InCall(t) == pc[t] \in RequestPcs \/ (pc[t] \in LoginPcs /\ cause[t] \in {"pre", "re"})

\* C2 as stated: a get or post call that received 401 has, when it returns, logged
\* in again exactly once and sent the request exactly twice.
C2_AlwaysRetriedOnce ==
    \A t \in Tasks :
        (pc[t] = "r_ret" /\ IsGetOrPost(t) /\ call[t].first401) =>
            call[t].relogins = 1 /\ call[t].sends = 2

\* C2 as amended: a get or post call that received 401 calls login() exactly once;
\* it sends the request a second time, with auto-login disabled, only if the session
\* is authenticated after that login; the retry never logs in, a 401 on the retry
\* returns null, and the request is never sent more than twice.
C2_AtMostOneRetry ==
    \A t \in Tasks : IsGetOrPost(t) /\ InCall(t) =>
        /\ call[t].relogins <= 1 /\ call[t].sends <= 2
        /\ call[t].first401 <=> call[t].relogins = 1
        /\ ~main[t].allowed => call[t].reauth = "yes" /\ pc[t] \notin LoginPcs
        /\ call[t].sends = 2 => ~main[t].allowed
        /\ pc[t] = "r_ret" /\ call[t].reauth = "no" => call[t].sends = 1 /\ res[t] = None
        /\ pc[t] = "r_ret" /\ ~main[t].allowed /\ call[t].last = "401" => res[t] = None

\* C2, its case: the retry was sent and received 401 too; the call returns null
C2_Witness ==
    \E t \in Tasks : /\ pc[t] = "r_ret" /\ IsGetOrPost(t)
                     /\ call[t].sends = 2 /\ call[t].last = "401" /\ res[t] = None

\* C3: a request other than the login request is in flight only if the session was
\* marked authenticated when the request was sent.
C3_RequestsOnlyWhenLoggedIn ==
    \A t \in InFlight : pc[t] # "l_inflight" => sendCtx[t].authed

\* C4: at most one request is in flight, and the task whose request is in flight
\* holds the execution lock.
C4_OneRequestUnderLock ==
    /\ Cardinality(InFlight) <= 1
    /\ \A t \in InFlight : lock_holder = t

InCycle == {t \in Tasks : op[t] = "update" /\ pc[t] \notin {"idle", "u_enter", "u_wait", "u_ret"}}
WaitsForCycle(t) == pc[t] = "u_wait" /\ \E i \in 1..Len(updating_waiters) : updating_waiters[i] = t

\* C5: at most one task executes the body of async_update at a time.
C5_OneCycleAtATime == Cardinality(InCycle) <= 1

\* C5, its case: a trigger arrived during a cycle and waits for it to end
C5_Witness == \E t, u \in Tasks : t \in InCycle /\ pc[u] = "u_wait" /\ updInfo[u].busy

C7_NoRequestAfterLogout == \A t \in InFlight : ~sendCtx[t].afterLogout

SeqElems(q) == {q[i] : i \in 1..Len(q)}
\* the entries of q in the window of LOGIN_RATE_LIMIT_WINDOW seconds that ends at T
InWindow(q, T) == CountIn(q, T - LOGIN_RATE_LIMIT_WINDOW, T)

\* C8 as stated: in any 60-second window at most 5 login requests are sent.
C8_RequestsPerWindow ==
    \A T \in SeqElems(loginSent) : InWindow(loginSent, T) <= LOGIN_RATE_LIMIT_MAX_ATTEMPTS

\* C8 as amended: in any 60-second window at most 5 login attempts pass the
\* limiter (counted when login() is called), each sends at most one login request,
\* and a login() call refused by the limiter sends none.
C8_AttemptsPerWindow ==
    /\ \A T \in SeqElems(attemptLog) :
           InWindow(attemptLog, T) <= LOGIN_RATE_LIMIT_MAX_ATTEMPTS
    /\ \A t \in Tasks : loginInfo[t].outcome = "limited" => pc[t] = "l_ret"
    /\ \A t \in Tasks : pc[t] \in {"l_wait", "l_inflight"} => loginInfo[t].outcome = None

\* C8, its case: a login() call was refused with 5 attempts in the window, after
\* earlier attempts had left the window
C8_Witness ==
    \E t \in Tasks : /\ loginInfo[t].outcome = "limited"
                     /\ Len(login_attempts) = LOGIN_RATE_LIMIT_MAX_ATTEMPTS
                     /\ InWindow(attemptLog, now) = LOGIN_RATE_LIMIT_MAX_ATTEMPTS
                     /\ now >= LOGIN_RATE_LIMIT_WINDOW

\* C9 as stated: a login request that fails leaves the authenticated flag as it was
\* when login() was called.
C9_FailureKeepsFlag ==
    \A t \in Tasks : pc[t] = "l_ret" /\ loginInfo[t].outcome = "fail" =>
        logged_in = loginInfo[t].before

LoginSucceeds(t) ==
    pc[t] = "l_inflight" /\ pc'[t] = "l_ret" /\ loginInfo'[t].outcome = "ok"

\* C9 as amended: after a login request that failed the session is marked
\* unauthenticated, whatever it was before; the flag is set only by a login
\* request that succeeded.
C9_FailureLogsOut ==
    /\ [](\A t \in Tasks : pc[t] = "l_ret" /\ loginInfo[t].outcome = "fail" => ~logged_in)
    /\ [][~logged_in /\ logged_in' => \E t \in Tasks : LoginSucceeds(t)]_vars

\* C9, its case: login() was called on an authenticated session and its request failed
C9_Witness ==
    \E t \in Tasks : /\ pc[t] = "l_ret" /\ loginInfo[t].outcome = "fail"
                     /\ loginInfo[t].before /\ ~logged_in

\* a write of the running drain was confirmed by the device
WriteConfirmedInDrain(t) == upd[t].stage = "drain" /\ upd[t].okkeys # {}

\* C11: once a write of a drain has succeeded, every later request of that drain
\* that is not a login request is sent with the session marked unauthenticated.
C11_LoggedOutAfterWrite ==
    \A t \in Tasks :
        pc[t] = "r_inflight" /\ WriteConfirmedInDrain(t) => ~sendCtx[t].authed

LoginCheckFailed(t) == op[t] = "update" /\ pc[t] = "u_ret" /\ res[t] = "failed"

\* C12: a cycle goes past its login check only with the session authenticated; a
\* cycle whose login check failed returns false having sent no request other than
\* the login request and without having started the drain or any fetch, and the
\* step that returns false leaves the pending-write queue as it is.
C12_FailedLoginAbortsCycle ==
    /\ [](\A t \in Tasks :
            /\ pc[t] = "u_drain" => logged_in
            /\ LoginCheckFailed(t) =>
                 /\ ~updInfo[t].sent /\ ~updInfo[t].drained
                 /\ upd[t] = NoUpd /\ updating_holder # t)
    /\ [][\A t \in Tasks : ~LoginCheckFailed(t) /\ LoginCheckFailed(t)' =>
              UNCHANGED queueVars]_vars

\* C12, its case: the login check failed with writes waiting in the queue
C12_Witness ==
    \E t \in Tasks : LoginCheckFailed(t) /\ update_values # <<>> /\ ~logged_in

CycleTimedOut(t) == op[t] = "update" /\ pc[t] = "u_ret" /\ res[t] = "timeout"
HoldsNoLock(t) ==
    /\ updating_holder # t /\ lock_holder # t
    /\ \A i \in 1..Len(updating_waiters) : updating_waiters[i] # t
    /\ \A i \in 1..Len(lock_waiters) : lock_waiters[i] # t

\* C13: a cycle cancelled by the cycle timeout is reported as failed with the
\* session marked unauthenticated and with no lock held or waited for by its task;
\* a cycle sends no request before its login check, and a cycle that starts with
\* the session unauthenticated goes to login() first.
C13_TimeoutForcesLogin ==
    /\ [](\A t \in Tasks :
            /\ CycleTimedOut(t) => ~logged_in /\ HoldsNoLock(t)
            /\ pc[t] = "u_login" => ~updInfo[t].sent /\ updating_holder = t)
    /\ [][\A t \in Tasks : pc[t] = "u_login" /\ ~logged_in /\ pc'[t] # "u_login" =>
              pc'[t] = "l_enter" /\ cause'[t] = "proactive"]_vars

\* C13, its case: the timeout hit a cycle that was past its drain, with the
\* session authenticated until then, while another trigger waits for the cycle lock
C13_Witness ==
    \E t, u \in Tasks : /\ CycleTimedOut(t) /\ upd[t].stage \in {"post", "main"}
                        /\ pc[u] = "u_wait"

Accumulated == Len(fetch.properties)

\* C14: every page is requested at the offset equal to the number of properties
\* accumulated so far (the first at 0); the fetch goes on after a page only while
\* the reported total exceeds the accumulated count, and ends as complete only
\* once the count has reached the total; the accumulated properties are the
\* device's properties 1 .. count, in page order.
C14_PagesInOrder ==
    /\ fetch.pc = "inflight" => fetch.requested = Accumulated
    /\ fetch.offset = Accumulated
    /\ fetch.properties = [i \in 1..Accumulated |-> i]
    /\ fetch.why = "complete" => fetch.pc = "done" /\ Accumulated >= fetch.total
    /\ fetch.pc \in {"loop", "inflight", "sleep"} /\ fetch.total # -1 =>
           fetch.total > Accumulated

\* C14, its case: total 2 with one property on the first page forced a second
\* request at offset 1, which completed the fetch
C14_Witness ==
    /\ fetch.pc = "done" /\ fetch.why = "complete"
    /\ fetch.total = 2 /\ Accumulated = 2 /\ fetch.requested = 1

\* C15: the fetcher never sees more than 3 null responses in a row; at the third
\* it stops with what it has accumulated and sends nothing more; after fewer than
\* 3 it sleeps and asks again; any other response resets the count.
C15_ThreeNullsAbort ==
    /\ fetch.nulls <= MaxFetchAttempts
    /\ fetch.nulls = MaxFetchAttempts <=> fetch.why = "gaveup"
    /\ fetch.why = "gaveup" => fetch.pc = "done" /\ fetch.properties = [i \in 1..Accumulated |-> i]
    /\ fetch.pc = "sleep" => fetch.nulls \in 1..(MaxFetchAttempts - 1)
    /\ fetch.attempt = fetch.nulls + (IF fetch.pc = "inflight" THEN 1 ELSE 0)

\* C15, its case: three null responses in a row after a first page was received
C15_Witness ==
    /\ fetch.why = "gaveup" /\ fetch.nulls = MaxFetchAttempts /\ Accumulated > 0

\* C16: a step changes the start-tag of a socket only when it applies a line of
\* that socket whose id is strictly greater than the stored taglog; taglog never
\* decreases; the tag is the one written by the line with the greatest id that
\* wrote it, so an older line applied later changes nothing.
C16_TaglogMonotonic ==
    /\ [][\A s \in Sockets :
            /\ latest_tag'[s].taglog >= latest_tag[s].taglog
            /\ tagFrom'[s] >= tagFrom[s]
            /\ latest_tag'[s] # latest_tag[s] =>
                 logline'.socket = s /\ logline'.id > latest_tag[s].taglog]_vars
    /\ [](\A s \in Sockets : tagFrom[s] <= latest_tag[s].taglog)

\* C16, its case: a connect line with another tag and a lower id was applied
\* after the line the stored tag was taken from
C16_Witness ==
    /\ logline.tag \in Tags
    /\ logline.id < tagFrom[logline.socket]
    /\ logline.tag # latest_tag[logline.socket].tag

\* C17: over completed cycles every category is fetched again within
\* ceil(total / per_cycle) cycles, each cycle's window starts where the previous one
\* ended, and no category is fetched a second time before all have been fetched.
C17_RoundRobin ==
    /\ \A c \in AllCats : rot.age[c] < CeilDiv(rot.total, rot.per_cycle)
    /\ ~rot.early
    /\ rot.pc = "idle" /\ rot.seen # {} /\ rot.seen # AllCats =>
           rot.seen = {(StartIndex(rot.index, rot.per_cycle, rot.total) - k) % rot.total :
                          k \in 1..Cardinality(rot.seen)}

\* C17, its case: 5 categories, 2 per cycle, three cycles completed: the third
\* window wrapped around (categories 4 and 0) and every category has been fetched
C17_Witness ==
    /\ rot.total = 5 /\ rot.per_cycle = 2 /\ rot.pc = "idle" /\ rot.index = 3
    /\ rot.age[4] = 0 /\ rot.age[0] = 0 /\ rot.age[2] = 1 /\ rot.age[1] = 2

\* the input of the call is outside the range the setter documents
OutOfRange(c) ==
    CASE c.setter = "set_current_limit" -> c.x \notin 1..32
      [] c.setter = "set_green_share" -> c.x \notin 0..100
      [] c.setter = "set_comfort_power" -> c.x \notin 1400..5000
      [] c.setter = "set_current_phase" -> ~(c.x = 1 \/ c.x = 2 \/ c.x = 3)
      [] OTHER -> FALSE

\* C18: a typed setter called with an input out of range leaves the pending-write
\* queue as it is and starts no refresh.
C18_RejectedInputNoEffect ==
    [][setterCall'.n # setterCall.n /\ OutOfRange(setterCall') =>
           UNCHANGED <<update_values, cellval, pc, op, unsent>>]_vars

\* C18, its case: set_current_limit(33) was rejected with a write waiting in the
\* queue and a refresh slot free
C18_Witness ==
    /\ setterCall.setter = "set_current_limit" /\ setterCall.x = 33
    /\ update_values # <<>>
    /\ \E u \in Updaters : pc[u] = "idle"

\* the socket a meter-value line names, as "socket <n>"
MvSocket(l) == IF l[3] = "1," THEN "socket 1" ELSE "socket 2"

\* C19: a meter-value line "<id>_mv socket <n>, <date> <time> <kWh>" sets the mv
\* kWh fact of socket n to the kWh token and its mv date fact to "<date> <time>",
\* and leaves the start, stop and last_start facts of every socket as they were.
C19_MvLineSetsMvFacts ==
    [][txline' \in MvLines =>
          /\ latest_tag_tx'[<<MvSocket(txline'), "mv", "kWh">>] = txline'[6]
          /\ latest_tag_tx'[<<MvSocket(txline'), "mv", "date">>] = txline'[4] \o " " \o txline'[5]
          /\ \A k \in TxKeys : k[2] # "mv" => latest_tag_tx'[k] = latest_tag_tx[k]]_vars

\* C19, its case: a meter-value line of socket 1 was parsed when socket 1 had
\* start, stop and last_start facts and an older meter value
C19_Witness ==
    /\ txline \in MvLines /\ MvSocket(txline) = "socket 1"
    /\ latest_tag_tx[<<"socket 1", "last_start", "kWh">>] # None
    /\ latest_tag_tx[<<"socket 1", "stop", "kWh">>] # None
    /\ latest_tag_tx[<<"socket 1", "mv", "kWh">>] = "21.5"
    /\ latest_tag_tx[<<"socket 1", "start", "kWh">>] = "20.3"

\* the drain of t removes its confirmed keys in this step
RemovalStep(t) == pc[t] = "u_remove" /\ pc'[t] = "u_fetch"

\* the value the drain of t read for id i
DrainedValue(t, i) == cellval[CellOf(upd[t].values, i)]

\* C20: when a drain ends and set_value was not called for an id while it ran, the
\* id has left the queue if and only if the device confirmed its write; a
\* confirmed id that is in the property store has the written value there; an id
\* whose write failed is still queued with the same value; and every write the
\* drain before left in the queue was sent to the device again by this drain.
C20_RemovedIffConfirmed ==
    [][\A t \in Tasks : RemovalStep(t) =>
          /\ \A i \in QueueIds(upd[t].values) : lastSet[i] = NoSet =>
                /\ ~InQueue(update_values', i) <=> i \in upd[t].okkeys
                /\ i \in upd[t].okkeys /\ properties[i].cached =>
                       properties'[i].value = DrainedValue(t, i)
                /\ i \notin upd[t].okkeys =>
                       /\ InQueue(update_values', i)
                       /\ cellval'[CellOf(update_values', i)] = DrainedValue(t, i)
          /\ failedWrites = {}]_vars

\* C20, its case: a drain with no set_value beside it is about to remove its keys;
\* it has sent again a write the drain before had left in the queue, the write of
\* id 1 was confirmed and is in the property store, and the write of id 2 failed
C20_Witness ==
    \E t \in Tasks :
        /\ pc[t] = "u_remove"
        /\ \A i \in Ids : lastSet[i] = NoSet
        /\ upd[t].resent /\ 1 \in upd[t].okkeys
        /\ properties[1].cached /\ properties[1].value = DrainedValue(t, 1)
        /\ 2 \in QueueIds(upd[t].values) \ upd[t].okkeys

\* C21: every re-bootstrap signal is followed by a cycle that runs the static
\* stage: while a signal is raised and no static stage has started since, the
\* flag that makes the next cycle run it is still set, also when the signal came
\* while a cycle was running.
C21_SignalRemembered == bootOwed => get_static_properties

\* the log test and the transaction test of a cycle, with the category enabled
LogTest == sched.pc = "idle" /\ sched'.pc # "idle" /\ "logs" \in category_options
TxTest == sched.pc = "tx" /\ sched'.pc # "tx" /\ "transactions" \in category_options

\* C22: the log fetch runs in exactly every 20th cycle that reaches the log test
\* with the logs category enabled, the transaction fetch in exactly every 60th
\* cycle that reaches its test with the transactions category enabled, and the
\* counters stay within 0..19 and 0..59.
C22_FetchEveryNth ==
    [][/\ LogTest => (sched'.pc = "log" <=> sched.logSince + 1 = 20)
       /\ TxTest /\ sched'.pc # "idle" => sched.txSince + 1 = 60
       /\ TxTest /\ sched.txSince + 1 = 60 => sched'.pc = "txfetch"
       /\ log_counter' \in 0..19 /\ transaction_counter' \in 0..59]_vars

\* C22, its case: a transaction fetch is running, in a cycle whose log test did
\* not fetch
C22_Witness == sched.pc = "txfetch" /\ log_counter = 7 /\ "logs" \in category_options

\* C23: set_value waits neither for the cycle lock nor for the execution lock:
\* whenever no task is running a step, also with an update cycle blocked in a
\* network call or a delay, a set_value call can run to completion, and the value
\* it set is in the queue when it has returned.
C23_SetValueNeverWaits ==
    /\ [](\A t \in Callers : running = NoTask /\ pc[t] = "idle" =>
             \A i \in Ids, v \in Vals : ENABLED CallSetValue(t, i, v, OneUpdater))
    /\ [][\A i \in Ids : lastSet'[i] # lastSet[i] /\ lastSet'[i].val # 0 =>
             /\ InQueue(update_values', i)
             /\ cellval'[CellOf(update_values', i)] = lastSet'[i].val
             /\ \A t \in Callers : pc'[t] = "idle"]_vars

\* C23, its case: set_value has returned with its value queued while the cycle
\* holds the cycle lock and the execution lock, waiting for the device
C23_Witness ==
    \E u \in Updaters, i \in Ids :
        /\ pc[u] = "r_inflight" /\ lock_holder = u /\ updating_holder = u
        /\ lastSet[i].val # 0 /\ InQueue(update_values, i)
        /\ cellval[CellOf(update_values, i)] = lastSet[i].val

\* C24: logout() sends its logout request to the device after it has set the
\* stay-logged-out flag: the step that sets the flag leaves the POST of the caller
\* under way (waiting for the execution lock, or in flight).
C24_LogoutRequestSent ==
    [][keep_logout' /\ ~keep_logout =>
          \E t \in Callers : /\ pc'[t] \in {"r_enter", "r_lock", "r_wait", "r_inflight"}
                             /\ main'[t].kind = "post"]_vars

\* C25: _get and _post never raise: whatever way the request fails in transport,
\* the call returns None, and the execution lock is free again when the request
\* has ended.
C25_FailuresReturnNone ==
    /\ [](\A t \in Tasks : res[t] # "raise")
    /\ [][\A t \in Tasks :
             pc[t] = "r_inflight" /\ pc'[t] # "r_inflight" /\ IsGetOrPost(t) =>
                 /\ lock_holder' = NoTask
                 /\ call'[t].last \in TransportFailures =>
                        res'[t] = None /\ pc'[t] = "r_ret"]_vars

\* C25, its case: a request has ended with an unparsable body and returns None;
\* the lock is free and another request waits for it
C25_Witness ==
    \E t \in Tasks :
        /\ pc[t] = "r_ret" /\ call[t].last = "body" /\ res[t] = None
        /\ lock_holder = NoTask /\ lock_waiters # <<>>

\* C26: whenever the device answers a request with 401, the session is marked
\* unauthenticated when the answer has been handled, also when the request was the
\* retry that runs with allowed_login = False.
C26_Every401LogsOut ==
    [][\A t \in Tasks :
          pc[t] = "r_inflight" /\ pc'[t] # "r_inflight" /\ call'[t].last = "401" =>
              ~logged_in']_vars

\* C27: the fetch of a category ends after finitely many requests, whatever the
\* device answers: a fetch that is in its loop reaches its return.
C27_FetchTerminates == (fetch.pc = "loop") ~> (fetch.pc = "done")

\* C28: a transaction parse pass ends after finitely many requests, whatever the
\* device answers: a call of _get_transaction that is about to send a request
\* reaches its end.
C28_TransactionPassTerminates ==
    (transaction.pc = "request") ~> (transaction.pc \in {"done", "raised"})

Malformed(l) == l \in ShortLines \cup BadIdLines

\* C29: a malformed transaction line is skipped on its own: the for loop's step on
\* it changes no stored fact, raises nothing, and goes on with the lines after it
\* in the same response.
C29_MalformedLineSkipped ==
    [][(transaction.pc = "lines" /\ Malformed(Head(transaction.lines))) =>
          /\ latest_tag_tx' = latest_tag_tx
          /\ transaction'.pc # "raised"
          /\ Tail(transaction.lines) # <<>> =>
                 transaction'.pc = "lines" /\ transaction'.lines = Tail(transaction.lines)]_vars

\* C30: when the same numeric id has come twice in a row in a pass, the pass has
\* ended: it parses no further line and sends no further request.
C30_EndsAtSecondSighting ==
    transaction.seen.times >= 2 => transaction.pc \in {"done", "idle"}

\* C31: the unknown-line rule ends a pass only when more than 2 unknown lines have
\* come in a row: the step on an unknown line that sets transactionLoop to False
\* is the step on the third unknown line of a row or a later one.
C31_UnknownRuleCountsRow ==
    [][(transaction.pc = "lines" /\ Unknown(Head(transaction.lines))
           /\ transaction.transactionLoop /\ ~transaction'.transactionLoop) =>
          transaction'.unknownRow > 2]_vars

\* C32: at the start of every cycle the rotation index is a valid position in the
\* list of rotating categories, also after an options update: 0 <= index < number
\* of rotating categories whenever there is one.
C32_IndexInRange ==
    (rot.pc = "idle" /\ rot.total > 0) => rot.index \in 0..(rot.total - 1)

\* C33: log processing is idempotent and order-insensitive: from the facts of any
\* reachable state, a second pass over the same buffer changes nothing, and the
\* two orders of a buffer of two lines with different ids give the same tag and
\* taglog for every socket.
C33_LogPassOrderInsensitive ==
    \A a, b \in {l \in LogLines : WellFormed(l)} :
        a.id # b.id =>
            /\ ProcessLogs(ProcessLogs(latest_tag, <<a, b>>), <<a, b>>)
                   = ProcessLogs(latest_tag, <<a, b>>)
            /\ ProcessLogs(latest_tag, <<a, b>>) = ProcessLogs(latest_tag, <<b, a>>)

\* the idempotence alone, which holds
LogPassIdempotent ==
    \A a, b \in {l \in LogLines : WellFormed(l)} :
        ProcessLogs(ProcessLogs(latest_tag, <<a, b>>), <<a, b>>)
            = ProcessLogs(latest_tag, <<a, b>>)

\* C34: the transaction parser overwrites a date or kWh fact of a socket and phase
\* only on a line whose id is greater than the id of the line that wrote the facts
\* of that socket and phase last.
C34_OverwriteOnlyByNewerLine ==
    [][\A k \in TxKeys :
          (latest_tag_tx[k] # None /\ latest_tag_tx'[k] # latest_tag_tx[k]) =>
              Numeric(txline') /\ Tid(txline') > transaction.applied[<<k[1], k[2]>>]]_vars

C36_EventLineSetsTag ==
    \A l \in {x \in LogLines : WellFormed(x) /\ x.parsed} :
        l.id > latest_tag[l.socket].taglog =>
            /\ l.event = "disconnect" =>
                   ApplyLogLine(latest_tag[l.socket], l) = [taglog |-> l.id, tag |-> "No Tag"]
            /\ (l.event = "connect" /\ l.hasTag /\ l.tag # None) =>
                   ApplyLogLine(latest_tag[l.socket], l) = [taglog |-> l.id, tag |-> l.tag]

\* C37: when the device confirms a queued write of an id that is in the property
\* store, the value cached for the id is the value that was sent in the request,
\* also when set_value was called for the id while the request was in flight.
C37_CachedValueIsSentValue ==
    [][\A t \in Tasks :
          (pc[t] = "u_drain_ret" /\ pc'[t] = "u_loop" /\ res[t] = "ok"
               /\ properties[main[t].id].cached) =>
              properties'[main[t].id].value = main[t].val]_vars

\* C38: at the end of a cycle in which the static stage ran, every property the
\* static fetch returned is in the property store, whatever the store held before.
C38_StaticPropertiesStored ==
    (boot.pc = "idle" /\ boot.ran) =>
        \A i \in Ids : CatOf(i) \in static_properties => properties[i].cached

\* C40: a login() that the rate limiter refuses changes no session state: the
\* authenticated flag and the stay-logged-out flag are as before, and no attempt
\* is recorded.
C40_RefusedLoginChangesNothing ==
    [][\A t \in Tasks :
          (pc[t] = "l_enter" /\ pc'[t] = "l_ret" /\ loginInfo'[t].outcome = "limited") =>
              /\ logged_in' = logged_in
              /\ keep_logout' = keep_logout
              /\ attemptLog' = attemptLog]_vars

\* ---------------------------------------------------------------- C39
\* the steps the tasks take by themselves: no new call, no timeout
Unblocked ==
    \/ Engine
    \/ Contention
    \/ \E t \in Tasks : UpdateEnter(t)
    \/ \E t \in Tasks : UpdateResume(t)
    \/ \E t \in Tasks : ProactiveLogin(t)
    \/ \E t \in Tasks : DrainSnapshot(t)
    \/ \E t \in Tasks : DrainNext(t)
    \/ \E t \in Tasks : DrainRemove(t)
    \/ \E t \in Tasks : FetchNext(t)
    \/ \E t \in Tasks : FetchResult(t)
    \/ \E t \in Tasks : Wake(t)
    \/ \E t \in Tasks : UpdateReturn(t)

\* the tasks waiting for self._lock and for self._updating_lock
WaitsForLock(t) == pc[t] \in {"l_wait", "r_wait"}
WaitsForUpdatingLock(t) == pc[t] = "u_wait"

====
